---- MODULE Spec2Model ----
(***************************************************************************)
(* Model of the scheduling core of the proposer tool:                      *)
(*   - src/src/inputs.rs : calculate_planned_date, get_upgrade_time,       *)
(*                         is_valid_upgrade_time                           *)
(*   - src/src/block.rs  : get_estimated_height and the two block queries  *)
(*                                                                         *)
(* A DateTime<Utc> is modelled as its number of seconds since              *)
(* 1970-01-01T00:00:00Z, a chrono Duration as a number of seconds.         *)
(***************************************************************************)
EXTENDS Integers, Sequences, FiniteSets, TLC

VARIABLES
    \* ---- inputs.rs: get_upgrade_time ----
    plan_pc,        \* "start" | "done" | "error"
    voting_period,  \* argument voting_period (seconds)
    utc_time,       \* argument utc_time (epoch seconds)
    default_date,   \* local default_date of get_upgrade_time: Some(epoch seconds)
    plan_result,    \* the Ok value returned: Some(epoch seconds)
    plan_err,       \* the InputError returned, or NoError
    \* ---- block.rs: get_estimated_height ----
    pc,             \* "idle" | "start" | "latest" | "done" | "error" | "panic"
    upgrade_time,   \* argument upgrade_time (epoch seconds)
    block,          \* local block (the latest block), or NoValue
    requested,      \* the height asked of get_block, or NoValue
    block_minus_n,  \* local block_minus_n, or NoValue
    result,         \* Ok(height), or NoValue
    err,            \* the BlockError returned, or NoValue
    overflow_checks,\* whether the build panics on integer overflow (debug) or wraps (release)
    wrapped,        \* TRUE once a u64 operation of the run has wrapped around
    queries,        \* the block queries issued so far, oldest first
    \* ---- version.rs, inputs.rs: one application of the validation predicates ----
    chk_pc,         \* "idle" | "start" | "done"
    chk_kind,       \* "version" | "time": which predicates are applied
    chk_network,    \* argument network
    chk_version,    \* argument version / target_version, as the parts it is made of
    chk_time,       \* argument upgrade_time (epoch seconds)
    valid_version,      \* Some(is_valid_version(..)), or NoValue
    valid_for_network,  \* Some(is_valid_version_for_network(..)), or NoValue
    valid_time,         \* Some(is_valid_upgrade_time(..)), or NoValue
    \* ---- helper.rs: get_helper_from_inputs ----
    flow_pc,        \* "idle" | "start" | "previous" | "target" | "time" | "height"
                    \* | "done" | "error" | "panic"
    used_network,   \* local used_network, or NoValue
    previous_version,   \* local previous_version (its parts), or NoValue
    target_version,     \* local target_version (its parts), or NoValue
    flow_err,       \* the InputError returned, or NoError
    \* ---- helper.rs: UpgradeHelper::validate; cli.rs: generate_proposal ----
    prop_pc,        \* "idle" | "start" | "validated" | "exported" | "rendered" | "done"
                    \* | "error" | "panic"
    prop_cmd,       \* "generate-proposal" | "generate-command" | "validate": what is
                    \* run on the helper
    helper,         \* the UpgradeHelper (the fields validate reads), or NoValue
    validation,     \* Some(what validate returned), or NoValue
    prop_err,       \* the ProposalError returned, or NoError
    files,          \* the files the run created or truncated so far, oldest first
    \* ---- keys.rs: get_keys_with_balances ----
    keys_pc,        \* "idle" | "start" | "filter" | "done" | "error" | "panic"
    keyring,        \* the keys of the keyring, in its order, or NoValue
    balances,       \* what the balance queries answered so far, in the order asked
    keys_with_balance,  \* local keys_with_balance
    keys_result,    \* Some(the list returned), or NoValue
    keys_err,       \* the KeysError returned, or NoError
    \* ---- cli.rs: generate_command ----
    cmd_pc,         \* "idle" | "start" | "helper" | "commonwealth" | "keys" | "prepare"
                    \* | "prepared" | "done" | "error" | "panic"
    commonwealth_link,  \* upgrade_helper.commonwealth_link
    key,            \* local key, or NoValue
    cmd_err         \* the CommandError returned, or NoError

vars == <<plan_pc, voting_period, utc_time, default_date, plan_result, plan_err,
          pc, upgrade_time, overflow_checks, block, requested, block_minus_n,
          result, err, wrapped, queries,
          chk_pc, chk_kind, chk_network, chk_version, chk_time,
          valid_version, valid_for_network, valid_time,
          flow_pc, used_network, previous_version, target_version, flow_err,
          prop_pc, prop_cmd, helper, validation, prop_err, files,
          keys_pc, keyring, balances, keys_with_balance, keys_result, keys_err,
          cmd_pc, commonwealth_link, key, cmd_err>>

planVars == <<plan_pc, voting_period, utc_time, default_date, plan_result, plan_err>>

heightVars == <<pc, upgrade_time, overflow_checks, block, requested, block_minus_n,
                result, err, wrapped, queries>>

checkVars == <<chk_pc, chk_kind, chk_network, chk_version, chk_time,
               valid_version, valid_for_network, valid_time>>

flowVars == <<flow_pc, used_network, previous_version, target_version, flow_err>>

proposalVars == <<prop_pc, prop_cmd, helper, validation, prop_err, files>>

keysVars == <<keys_pc, keyring, balances, keys_with_balance, keys_result, keys_err>>

commandVars == <<cmd_pc, commonwealth_link, key, cmd_err>>

\* Option<T>: None is the empty tuple, Some(v) the tuple <<v>>
NoValue == <<>>

Some(v) == <<v>>

Val(o) == o[1]

\* No error returned (yet)
NoError == "none"

(***************************************************************************)
(* chrono calendar arithmetic (proleptic Gregorian calendar, UTC).         *)
(***************************************************************************)
SECS_PER_DAY == 24 * 60 * 60

\* Duration::days(n), Duration::hours(n)
DurationDays(n) == n * SECS_PER_DAY

DurationHours(n) == n * 3600

\* NaiveDate of a DateTime<Utc>, as the number of days since 1970-01-01
DaysOf(t) == t \div SECS_PER_DAY

\* Timelike::hour
Hour(t) == (t % SECS_PER_DAY) \div 3600

\* Timelike::minute
Minute(t) == (t % 3600) \div 60

\* Timelike::second
Second(t) == t % 60

\* Datelike::weekday; 1970-01-01 was a Thursday
Weekday(t) == <<"Mon", "Tue", "Wed", "Thu", "Fri", "Sat", "Sun">>[((DaysOf(t) + 3) % 7) + 1]

\* Day count -> [year, month, day] of the Gregorian calendar, by 400-year eras
\* starting on 0000-03-01.
CivilFromDays(z0) ==
    LET z    == z0 + 719468
        era  == z \div 146097
        doe  == z - era * 146097
        yoe  == (doe - doe \div 1460 + doe \div 36524 - doe \div 146096) \div 365
        doy  == doe - (365 * yoe + yoe \div 4 - yoe \div 100)
        mp   == (5 * doy + 2) \div 153
        d    == doy - (153 * mp + 2) \div 5 + 1
        m    == IF mp < 10 THEN mp + 3 ELSE mp - 9
        y    == yoe + era * 400 + (IF m <= 2 THEN 1 ELSE 0)
    IN  [year |-> y, month |-> m, day |-> d]

\* Datelike::year, Datelike::month, Datelike::day
Year(t) == CivilFromDays(DaysOf(t)).year

Month(t) == CivilFromDays(DaysOf(t)).month

Day(t) == CivilFromDays(DaysOf(t)).day

\* [year, month, day] -> day count since 1970-01-01
DaysFromCivil(y0, m, d) ==
    LET y    == IF m <= 2 THEN y0 - 1 ELSE y0
        era  == y \div 400
        yoe  == y - era * 400
        mp   == IF m > 2 THEN m - 3 ELSE m + 9
        doy  == (153 * mp + 2) \div 5 + d - 1
        doe  == yoe * 365 + yoe \div 4 - yoe \div 100 + doy
    IN  era * 146097 + doe - 719468

\* Utc.with_ymd_and_hms(y, m, d, h, mi, s).unwrap()
with_ymd_and_hms(y, m, d, h, mi, s) ==
    DaysFromCivil(y, m, d) * SECS_PER_DAY + h * 3600 + mi * 60 + s

(***************************************************************************)
(* inputs.rs                                                               *)
(***************************************************************************)
\* cutoff_applies with the comparison of the doc comment ("after 2 pm") taken as >=
cutoff_applies_from_2pm(now, end_of_voting) == Hour(now) >= 14 \/ Hour(end_of_voting) >= 16

\* Mutant: only the hour of `now` is looked at
cutoff_applies_now_only(now, end_of_voting) == Hour(now) > 14

\* Mutant: the end of voting is compared with 2 pm, as the NOTE has it
cutoff_applies_end_from_2pm(now, end_of_voting) ==
    Hour(now) > 14 \/ Hour(end_of_voting) >= 14

\* Mutant: an end of voting within the hour from 4 pm does not count
cutoff_applies_end_after_4pm(now, end_of_voting) ==
    Hour(now) > 14 \/ Hour(end_of_voting) > 16

\* The cutoff test of calculate_planned_date (inputs.rs:147)
cutoff_applies(now, end_of_voting) == Hour(now) > 14 \/ Hour(end_of_voting) >= 16

\* weekend_shift moving a Saturday by one day only
weekend_shift_one_day(end_of_voting) ==
    IF Weekday(end_of_voting) = "Sat" \/ Weekday(end_of_voting) = "Sun"
    THEN end_of_voting + DurationDays(1)
    ELSE end_of_voting

\* Mutant: a Sunday is moved on, a Saturday is left
weekend_shift_sunday_only(end_of_voting) ==
    IF Weekday(end_of_voting) = "Sun" THEN end_of_voting + DurationDays(1)
    ELSE end_of_voting

\* The weekend shift of calculate_planned_date (inputs.rs:152-156)
weekend_shift(end_of_voting) ==
    IF Weekday(end_of_voting) = "Sat" THEN end_of_voting + DurationDays(2)
    ELSE IF Weekday(end_of_voting) = "Sun" THEN end_of_voting + DurationDays(1)
    ELSE end_of_voting

\* anchor_4pm keeping the minute and second of end_of_voting
anchor_4pm_keep_minutes(end_of_voting) ==
    with_ymd_and_hms(Year(end_of_voting), Month(end_of_voting), Day(end_of_voting),
                     16, Minute(end_of_voting), Second(end_of_voting))

\* The final anchoring of calculate_planned_date (inputs.rs:158-166)
anchor_4pm(end_of_voting) ==
    with_ymd_and_hms(Year(end_of_voting), Month(end_of_voting), Day(end_of_voting), 16, 0, 0)

\* Mutant: the cutoff rule is applied again after the weekend rule
calculate_planned_date_cutoff_twice(vp, now) ==
    LET end0 == now + vp
        end1 == IF cutoff_applies(now, end0) THEN end0 + DurationDays(1) ELSE end0
        end2 == weekend_shift(end1)
        end3 == IF cutoff_applies(now, end2) THEN end2 + DurationDays(1) ELSE end2
    IN  anchor_4pm(end3)

calculate_planned_date(vp, now) ==
    LET end0 == now + vp
        end1 == IF cutoff_applies(now, end0) THEN end0 + DurationDays(1) ELSE end0
        end2 == weekend_shift(end1)
    IN  anchor_4pm(end2)

\* Mutant: only Sunday is refused
is_valid_upgrade_time_sunday_only(t) ==
    IF Weekday(t) = "Sun" THEN FALSE ELSE TRUE

is_valid_upgrade_time(t) ==
    IF Weekday(t) = "Sat" \/ Weekday(t) = "Sun" THEN FALSE ELSE TRUE

\* helper.rs: get_voting_period
get_voting_period(network) ==
    CASE network = "LocalNode" -> DurationHours(1)
      [] network = "Testnet"   -> DurationHours(12)
      [] network = "Mainnet"   -> DurationHours(120)

Networks == {"LocalNode", "Testnet", "Mainnet"}

(***************************************************************************)
(* The regex crate, as far as version.rs uses it. A string is a sequence   *)
(* of one-character strings. A pattern is a tree of nodes:                 *)
(*   start  ^          end   $ (the end of the text)    chr   a literal    *)
(*   digit  \d         any   .                          seq   r1 r2 ...    *)
(*   plus   r+         star  r*                         rep   r{n}         *)
(***************************************************************************)
ReStart == [t |-> "start"]

ReEnd == [t |-> "end"]

ReChr(c) == [t |-> "chr", c |-> c]

ReDigit == [t |-> "digit"]

ReAny == [t |-> "any"]

ReSeq(rs) == [t |-> "seq", rs |-> rs]

RePlus(r) == [t |-> "plus", r |-> r]

ReStar(r) == [t |-> "star", r |-> r]

ReRep(r, n) == [t |-> "rep", r |-> r, n |-> n]

\* A character of a &str is one element of the sequence that models the string:
\* an ASCII character stands for itself, any other character is written "U+" and
\* its code point in hexadecimal, of four digits at least ("U+0661").
RECURSIVE Hex(_, _)
\* cp in hexadecimal, padded with zeros to `width` digits
Hex(cp, width) ==
    LET HexDigits == <<"0", "1", "2", "3", "4", "5", "6", "7", "8", "9",
                       "A", "B", "C", "D", "E", "F">>
    IN  IF cp = 0 /\ width <= 0 THEN ""
        ELSE Hex(cp \div 16, width - 1) \o HexDigits[(cp % 16) + 1]

CodePoint(cp) == "U+" \o Hex(cp, 4)

\* The code points of the digit zero of every script outside ASCII whose digits
\* are of the general category Nd (decimal number); the digits one to nine
\* follow their zero (Unicode 16.0.0, the tables of regex-syntax 0.8)
NdZeros ==
    {1632, 1776, 1984, 2406, 2534, 2662, 2790, 2918,
     3046, 3174, 3302, 3430, 3558, 3664, 3792, 3872,
     4160, 4240, 6112, 6160, 6470, 6608, 6784, 6800,
     6992, 7088, 7232, 7248, 42528, 43216, 43264, 43472,
     43504, 43600, 44016, 65296, 66720, 68912, 68928, 69734,
     69872, 69942, 70096, 70384, 70736, 70864, 71248, 71360,
     71376, 71386, 71472, 71904, 72016, 72688, 72784, 73040,
     73120, 73552, 90416, 92768, 92864, 93008, 93552, 118000,
     120782, 120792, 120802, 120812, 120822, 123200, 123632, 124144,
     124401, 125264, 130032}

\* The characters \d matches: the patterns of version.rs are compiled by
\* Regex::new without (?-u), so \d is Unicode-aware and stands for \p{Nd}, the
\* ASCII digits and the decimal digits of every other script
DigitChars ==
    {"0", "1", "2", "3", "4", "5", "6", "7", "8", "9"}
        \cup {CodePoint(z + d) : z \in NdZeros, d \in 0 .. 9}

RECURSIVE Ends(_, _, _)
RECURSIVE SeqEnds(_, _, _, _)
RECURSIVE StarEnds(_, _, _, _)
RECURSIVE RepEnds(_, _, _, _)
\* The positions at which a match of pattern re that begins at position i of s
\* can end
Ends(re, s, i) ==
    CASE re.t = "start" -> IF i = 1 THEN {i} ELSE {}
      [] re.t = "end"   -> IF i = Len(s) + 1 THEN {i} ELSE {}
      [] re.t = "chr"   -> IF i <= Len(s) /\ s[i] = re.c THEN {i + 1} ELSE {}
      [] re.t = "digit" -> IF i <= Len(s) /\ s[i] \in DigitChars THEN {i + 1} ELSE {}
      [] re.t = "any"   -> IF i <= Len(s) /\ s[i] # "\n" THEN {i + 1} ELSE {}
      [] re.t = "seq"   -> SeqEnds(re.rs, 1, s, {i})
      [] re.t = "plus"  -> StarEnds(re.r, s, Ends(re.r, s, i), Ends(re.r, s, i))
      [] re.t = "star"  -> StarEnds(re.r, s, {i}, {i})
      [] re.t = "rep"   -> RepEnds(re.r, re.n, s, {i})

\* The patterns rs[k], rs[k+1], ... one after the other, begun at a position of from
SeqEnds(rs, k, s, from) ==
    IF k > Len(rs) THEN from
    ELSE SeqEnds(rs, k + 1, s, UNION {Ends(rs[k], s, j) : j \in from})

\* Any number of further matches of r, begun at a position of frontier
StarEnds(r, s, frontier, seen) ==
    LET next == UNION {Ends(r, s, j) : j \in frontier} \ seen
    IN  IF next = {} THEN seen ELSE StarEnds(r, s, next, seen \cup next)

\* Exactly n matches of r, begun at a position of from
RepEnds(r, n, s, from) ==
    IF n = 0 THEN from
    ELSE RepEnds(r, n - 1, s, UNION {Ends(r, s, j) : j \in from})

\* Regex::is_match: the pattern matches somewhere in s
is_match(re, s) == \E i \in 1 .. Len(s) + 1 : Ends(re, s, i) # {}

(***************************************************************************)
(* version.rs                                                              *)
(***************************************************************************)
\* -rc\d+
ReRcSuffix == ReSeq(<<ReChr("-"), ReChr("r"), ReChr("c"), RePlus(ReDigit)>>)

\* Mutant: the pattern without its end anchor
ReValidVersion_unanchored ==
    ReSeq(<<ReStart, ReChr("v"), RePlus(ReDigit), ReChr("."), RePlus(ReDigit), ReChr("."),
            RePlus(ReDigit), ReStar(ReRcSuffix)>>)

\* Mutant: the pattern with its dots unescaped
ReValidVersion_any_separator ==
    ReSeq(<<ReStart, ReChr("v"), RePlus(ReDigit), ReAny, RePlus(ReDigit), ReAny,
            RePlus(ReDigit), ReStar(ReRcSuffix), ReEnd>>)

\* ^v\d+\.\d+\.\d+(-rc\d+)*$
ReValidVersion ==
    ReSeq(<<ReStart, ReChr("v"), RePlus(ReDigit), ReChr("."), RePlus(ReDigit), ReChr("."),
            RePlus(ReDigit), ReStar(ReRcSuffix), ReEnd>>)

is_valid_version(version) == is_match(ReValidVersion, version)

\* Mutant: the head of the network patterns with its dots unescaped
ReNetworkVersionHead_any_separator ==
    <<ReStart, ReChr("v"), RePlus(ReDigit), ReAny, ReRep(ReDigit, 1), ReAny,
      RePlus(ReDigit)>>

\* ^v\d+\.\d{1}\.\d+ : what the three patterns of is_valid_version_for_network
\* begin with
ReNetworkVersionHead ==
    <<ReStart, ReChr("v"), RePlus(ReDigit), ReChr("."), ReRep(ReDigit, 1), ReChr("."),
      RePlus(ReDigit)>>

\* Mutant: every network takes the LocalNode pattern
network_pattern_rc_optional(network) ==
    ReSeq(ReNetworkVersionHead \o <<ReStar(ReRcSuffix), ReEnd>>)

\* The pattern is_valid_version_for_network chooses for the network
network_pattern(network) ==
    CASE network = "LocalNode" -> ReSeq(ReNetworkVersionHead \o <<ReStar(ReRcSuffix), ReEnd>>)
      [] network = "Testnet"   -> ReSeq(ReNetworkVersionHead \o <<ReRcSuffix, ReEnd>>)
      [] network = "Mainnet"   -> ReSeq(ReNetworkVersionHead \o <<ReEnd>>)

is_valid_version_for_network(network, target) ==
    is_match(network_pattern(network), target)

(***************************************************************************)
(* Inputs of the planning runs.                                            *)
(***************************************************************************)
\* Mondays the runs start from: 2023-10-23 (the tests' week), 2023-12-25 (the
\* week crosses the year's end), 2024-02-26 (the week holds a leap day)
PlanBaseDays == {19653, 19716, 19779}

\* `now` lies up to this many days after a base Monday
MaxDayOffset == 6

PlanHours == 0 .. 23

\* <<minute, second>> of `now`
PlanMinSecs == {<<0, 0>>, <<30, 0>>, <<59, 59>>}

\* The three networks' voting periods, and periods that are no whole hours
PlanVotingPeriods ==
    {get_voting_period(n) : n \in Networks}
        \cup {0, 90 * 60, DurationHours(100) + 59 * 60 + 59}

PlanNows ==
    {(b + o) * SECS_PER_DAY + h * 3600 + ms[1] * 60 + ms[2] :
        b \in PlanBaseDays, o \in 0 .. MaxDayOffset, h \in PlanHours, ms \in PlanMinSecs}

\* The DateSelect prompt offers the dates from with_min_date on; the user picks one
\* up to this many days ahead
MaxPickAhead == 9

CheckIdle ==
    /\ chk_pc = "idle"
    /\ chk_kind = "none"
    /\ chk_network = NoValue
    /\ chk_version = NoValue
    /\ chk_time = NoValue
    /\ valid_version = NoValue
    /\ valid_for_network = NoValue
    /\ valid_time = NoValue

FlowIdle ==
    /\ flow_pc = "idle"
    /\ used_network = NoValue
    /\ previous_version = NoValue
    /\ target_version = NoValue
    /\ flow_err = NoError

ProposalIdle ==
    /\ prop_pc = "idle"
    /\ prop_cmd = "none"
    /\ helper = NoValue
    /\ validation = NoValue
    /\ prop_err = NoError
    /\ files = <<>>

KeysIdle ==
    /\ keys_pc = "idle"
    /\ keyring = NoValue
    /\ balances = <<>>
    /\ keys_with_balance = <<>>
    /\ keys_result = NoValue
    /\ keys_err = NoError

CommandIdle ==
    /\ cmd_pc = "idle"
    /\ commonwealth_link = NoValue
    /\ key = NoValue
    /\ cmd_err = NoError

HeightIdle ==
    /\ pc = "idle"
    /\ upgrade_time = NoValue
    /\ overflow_checks = FALSE
    /\ block = NoValue
    /\ requested = NoValue
    /\ block_minus_n = NoValue
    /\ result = NoValue
    /\ err = NoError
    /\ wrapped = FALSE
    /\ queries = <<>>

InitPlan ==
    /\ plan_pc = "start"
    /\ voting_period \in PlanVotingPeriods
    /\ utc_time \in PlanNows
    /\ default_date = NoValue
    /\ plan_result = NoValue
    /\ plan_err = NoError
    /\ HeightIdle
    /\ CheckIdle
    /\ FlowIdle
    /\ ProposalIdle
    /\ KeysIdle
    /\ CommandIdle

\* get_upgrade_time, the user picking the date `date` (a day count) in the prompt
GetUpgradeTimeOk ==
    /\ plan_pc = "start"
    /\ \E date \in DaysOf(utc_time) .. DaysOf(utc_time) + MaxPickAhead :
          LET c == CivilFromDays(date)
          IN  plan_result' = Some(with_ymd_and_hms(c.year, c.month, c.day, 16, 0, 0))
    /\ default_date' = Some(calculate_planned_date(voting_period, utc_time))
    /\ plan_pc' = "done"
    /\ UNCHANGED <<voting_period, utc_time, plan_err>>
    /\ UNCHANGED <<heightVars, checkVars, flowVars, proposalVars, keysVars, commandVars>>

\* get_upgrade_time, the prompt failing (inputs.rs:132, the ? operator)
GetUpgradeTimeErr ==
    /\ plan_pc = "start"
    /\ default_date' = Some(calculate_planned_date(voting_period, utc_time))
    /\ plan_err' = "UserInput"
    /\ plan_pc' = "error"
    /\ UNCHANGED <<voting_period, utc_time, plan_result>>
    /\ UNCHANGED <<heightVars, checkVars, flowVars, proposalVars, keysVars, commandVars>>

NextPlan == GetUpgradeTimeOk \/ GetUpgradeTimeErr

SpecPlan == InitPlan /\ [][NextPlan]_vars

(***************************************************************************)
(* Rust's primitive numbers, as get_estimated_height uses them.            *)
(*                                                                         *)
(* An f32 is [k, s, m, e]: k = "num" stands for (-1)^s * m * 2^e with      *)
(* 2^23 <= m < 2^24 (a normal number; the exponents of the runs below stay *)
(* far from the subnormal and the overflow range), k = "zero" for +0 / -0, *)
(* k = "inf" for the infinities, k = "nan" for NaN.                        *)
(*                                                                         *)
(* A u64 is written as the integer congruent to it modulo 2^64 that lies   *)
(* in -2^63 .. 2^63 - 1 (its reading as an i64): u64::MAX is -1.           *)
(***************************************************************************)
F32(k, s, m, e) == [k |-> k, s |-> s, m |-> m, e |-> e]

F32Zero(s) == F32("zero", s, 0, 0)

F32Inf(s) == F32("inf", s, 0, 0)

F32NaN == F32("nan", 0, 0, 0)

RECURSIVE BitLen(_)
\* Number of bits of a > 0
BitLen(a) == IF a = 0 THEN 0 ELSE 1 + BitLen(a \div 2)

RECURSIVE ShiftLeftTo24(_, _, _)
\* Scale a significand below 2^23 up to 24 bits (exact)
ShiftLeftTo24(s, a, e) ==
    IF a >= 2^23 THEN F32("num", s, a, e) ELSE ShiftLeftTo24(s, 2 * a, e - 1)

\* The f32 nearest to (-1)^s * (a + f) * 2^e, where a > 0 is an integer and
\* 0 <= f < 1 is zero iff ~sticky: round to nearest, ties to even.
RoundToF32(s, a, e, sticky) ==
    IF a < 2^24 THEN ShiftLeftTo24(s, a, e)
    ELSE LET k    == BitLen(a) - 24
             q    == a \div 2^k
             r    == a % 2^k
             half == 2^(k - 1)
             up   == r > half \/ (r = half /\ (sticky \/ q % 2 = 1))
             m    == IF up THEN q + 1 ELSE q
         IN  IF m = 2^24 THEN F32("num", s, 2^23, e + k + 1)
             ELSE F32("num", s, m, e + k)

\* `n as f32` for an integer n (i64 or u64)
int_as_f32(n) ==
    IF n = 0 THEN F32Zero(0)
    ELSE IF n < 0 THEN RoundToF32(1, 0 - n, 0, FALSE)
    ELSE RoundToF32(0, n, 0, FALSE)

RECURSIVE LongDivide(_, _, _, _)
\* n more bits of the quotient q, remainder r, of a division by d
LongDivide(q, r, d, n) ==
    IF n = 0 THEN [q |-> q, r |-> r]
    ELSE IF 2 * r >= d THEN LongDivide(2 * q + 1, 2 * r - d, d, n - 1)
    ELSE LongDivide(2 * q, 2 * r, d, n - 1)

SignXor(x, y) == IF x.s = y.s THEN 0 ELSE 1

\* x / y on f32 (IEEE 754 division, round to nearest even)
f32_div(x, y) ==
    IF x.k = "nan" \/ y.k = "nan" THEN F32NaN
    ELSE IF x.k = "inf" /\ y.k = "inf" THEN F32NaN
    ELSE IF x.k = "zero" /\ y.k = "zero" THEN F32NaN
    ELSE IF x.k = "inf" \/ y.k = "zero" THEN F32Inf(SignXor(x, y))
    ELSE IF x.k = "zero" \/ y.k = "inf" THEN F32Zero(SignXor(x, y))
    ELSE LET d == LongDivide(x.m \div y.m, x.m % y.m, y.m, 25)
         IN  RoundToF32(SignXor(x, y), d.q, x.e - y.e - 25, d.r # 0)

U64_MAX == -1

\* `x as u64` for an f32 x: truncation toward zero, saturating at the ends of
\* the u64 range, NaN to 0
f32_as_u64(x) ==
    IF x.k = "nan" THEN 0
    ELSE IF x.s = 1 THEN 0
    ELSE IF x.k = "inf" THEN U64_MAX
    ELSE IF x.k = "zero" THEN 0
    ELSE IF x.e >= 0 THEN x.m * 2^(x.e)
    ELSE IF x.e <= -24 THEN 0
    ELSE x.m \div 2^(0 - x.e)

\* a < b as u64
u64_lt(a, b) ==
    IF (a < 0) = (b < 0) THEN a < b ELSE b < 0

\* a - b on u64: the difference modulo 2^64, and whether it wrapped around
u64_sub(a, b) == [value |-> a - b, overflow |-> u64_lt(a, b)]

\* a + b on u64: the sum modulo 2^64, and whether it wrapped around
u64_add(a, b) ==
    [value |-> a + b,
     overflow |-> IF a < 0 /\ b < 0 THEN TRUE
                  ELSE IF a < 0 \/ b < 0 THEN a + b >= 0
                  ELSE FALSE]

(***************************************************************************)
(* block.rs                                                                *)
(***************************************************************************)
N_BLOCKS == 50000

\* struct Block
Block(height, time) == [height |-> height, time |-> time]

\* A response body, as far as process_block_body looks at it:
\*   unpack     - serde_json::from_str gives a BlockResponse
\*   height     - header.height parsed as u64: Some(height), or NoValue
\*   time_found - the regex [T0-9\-:]+ finds a match in header.time
\*   time       - the match parsed with %Y-%m-%dT%H:%M:%S: Some(time), or NoValue
Body(unpack, height, time_found, time) ==
    [unpack |-> unpack, height |-> height, time_found |-> time_found, time |-> time]

\* Result<Block, BlockError>
Ok(v) == [ok |-> TRUE, value |-> v, error |-> NoError]

Err(e) == [ok |-> FALSE, value |-> NoValue, error |-> e]

process_block_body(body) ==
    IF ~body.unpack THEN Err("UnpackResponse")
    ELSE IF body.height = NoValue THEN Err("ParseInt")
    ELSE IF ~body.time_found THEN Err("ParseTime")
    ELSE IF body.time = NoValue THEN Err("ParseDate")
    ELSE Ok(Block(Val(body.height), Val(body.time)))

\* seconds_to_upgrade with the operands of the subtraction exchanged
seconds_to_upgrade_swapped(target, block_time) == int_as_f32(block_time - target)

\* block.rs:58
seconds_to_upgrade(target, block_time) == int_as_f32(target - block_time)

\* seconds_per_block without the division by N_BLOCKS
seconds_per_block_undivided(block_time, block_minus_n_time) ==
    int_as_f32(block_time - block_minus_n_time)

\* block.rs:55-56
seconds_per_block(block_time, block_minus_n_time) ==
    f32_div(int_as_f32(block_time - block_minus_n_time), int_as_f32(N_BLOCKS))

\* block.rs:59
blocks_to_upgrade(target, b, bn) ==
    f32_as_u64(f32_div(seconds_to_upgrade(target, b.time),
                       seconds_per_block(b.time, bn.time)))

\* block.rs:55-61: the sum returned for the samples b (latest) and bn (N_BLOCKS
\* earlier), and whether the addition wrapped around
estimate(target, b, bn) == u64_add(blocks_to_upgrade(target, b, bn), b.height)

(***************************************************************************)
(* Inputs of the estimation runs.                                          *)
(***************************************************************************)
\* Time of the latest block: 100000 s after 2024-01-05T04:39:20Z, the time of
\* block 18748834 in the tests
LatestTime == 1704429560 + 100000

\* Heights the node reports as its latest
LatestHeights == {0, 49999, 50000, 18798834}

\* upgrade_time - latest block time, in seconds
TargetOffsets == {-432000, -50002, -2, -1, 0, 1, 2, 3, 50002, 432000, 16777219}

\* latest block time - time of the block the node returns for the second query
RefAges == {100000, 95000, 50001, 5000, 0, -100}

\* What the node returns for the second query may lie this many blocks above the
\* height asked for
MaxHeightSkew == 1

MalformedBodies ==
    { Body(FALSE, NoValue, FALSE, NoValue),
      Body(TRUE, NoValue, FALSE, NoValue),
      Body(TRUE, Some(18798834), FALSE, NoValue),
      Body(TRUE, Some(18798834), TRUE, NoValue) }

LatestBodies ==
    MalformedBodies \cup {Body(TRUE, Some(h), TRUE, Some(LatestTime)) : h \in LatestHeights}

ReferenceBodies(asked) ==
    MalformedBodies \cup
        {Body(TRUE, Some(asked + k), TRUE, Some(LatestTime - a)) :
            k \in 0 .. MaxHeightSkew, a \in RefAges}

PlanIdle ==
    /\ plan_pc = "idle"
    /\ voting_period = NoValue
    /\ utc_time = NoValue
    /\ default_date = NoValue
    /\ plan_result = NoValue
    /\ plan_err = NoError

InitHeight ==
    /\ pc = "start"
    /\ upgrade_time \in {LatestTime + o : o \in TargetOffsets}
    /\ overflow_checks \in BOOLEAN
    /\ block = NoValue
    /\ requested = NoValue
    /\ block_minus_n = NoValue
    /\ result = NoValue
    /\ err = NoError
    /\ wrapped = FALSE
    /\ queries = <<>>
    /\ PlanIdle
    /\ CheckIdle
    /\ FlowIdle
    /\ ProposalIdle
    /\ KeysIdle
    /\ CommandIdle

\* block.rs:52 with get_latest_block: the request fails (get_body)
GetLatestBlockHttpErr ==
    /\ pc = "start"
    /\ queries' = Append(queries, "latest")
    /\ pc' = "error"
    /\ err' = "GetBlock"
    /\ UNCHANGED <<upgrade_time, overflow_checks, block, requested, block_minus_n,
                   result, wrapped>>
    /\ UNCHANGED <<planVars, checkVars, flowVars, proposalVars, keysVars, commandVars>>

\* block.rs:52 with get_latest_block: the node answers with `body`
GetLatestBlock ==
    /\ pc = "start"
    /\ queries' = Append(queries, "latest")
    /\ \E body \in LatestBodies :
          LET r == process_block_body(body)
          IN  IF r.ok
              THEN /\ block' = Some(r.value)
                   /\ pc' = "latest"
                   /\ err' = err
              ELSE /\ block' = block
                   /\ pc' = "error"
                   /\ err' = r.error
    /\ UNCHANGED <<upgrade_time, overflow_checks, requested, block_minus_n,
                   result, wrapped>>
    /\ UNCHANGED <<planVars, checkVars, flowVars, proposalVars, keysVars, commandVars>>

\* block.rs:53: block.height - N_BLOCKS wraps around and the build checks
\* overflows: the subtraction panics
SubtractPanics ==
    /\ pc = "latest"
    /\ overflow_checks
    /\ u64_sub(Val(block).height, N_BLOCKS).overflow
    /\ pc' = "panic"
    /\ UNCHANGED <<upgrade_time, overflow_checks, block, requested, block_minus_n,
                   result, err, wrapped, queries>>
    /\ UNCHANGED <<planVars, checkVars, flowVars, proposalVars, keysVars, commandVars>>

\* SubtractGoesOn with the second query issued again after a finished estimation
SubtractGoesOnAgain ==
    /\ pc \in {"latest", "done"}
    /\ ~(overflow_checks /\ u64_sub(Val(block).height, N_BLOCKS).overflow)

\* Whether block.rs:53-54 go on to the second query
SubtractGoesOn ==
    /\ pc = "latest"
    /\ ~(overflow_checks /\ u64_sub(Val(block).height, N_BLOCKS).overflow)

\* block.rs:54 with get_block: the request fails (get_body)
GetBlockMinusNHttpErr ==
    /\ SubtractGoesOn
    /\ LET sub == u64_sub(Val(block).height, N_BLOCKS)
       IN  /\ wrapped' = (wrapped \/ sub.overflow)
           /\ requested' = Some(sub.value)
           /\ queries' = Append(queries, sub.value)
    /\ pc' = "error"
    /\ err' = "GetBlock"
    /\ UNCHANGED <<upgrade_time, overflow_checks, block, block_minus_n, result>>
    /\ UNCHANGED <<planVars, checkVars, flowVars, proposalVars, keysVars, commandVars>>

\* block.rs:54 with get_block: the node answers with a body that
\* process_block_body rejects
GetBlockMinusNBadBody ==
    /\ SubtractGoesOn
    /\ LET sub == u64_sub(Val(block).height, N_BLOCKS)
       IN  /\ wrapped' = (wrapped \/ sub.overflow)
           /\ requested' = Some(sub.value)
           /\ queries' = Append(queries, sub.value)
           /\ \E body \in ReferenceBodies(sub.value) :
                 /\ ~process_block_body(body).ok
                 /\ err' = process_block_body(body).error
    /\ pc' = "error"
    /\ UNCHANGED <<upgrade_time, overflow_checks, block, block_minus_n, result>>
    /\ UNCHANGED <<planVars, checkVars, flowVars, proposalVars, keysVars, commandVars>>

\* block.rs:54-61: the node answers the second query with a block, and the
\* height is estimated from the two blocks
GetBlockMinusNAndEstimate ==
    /\ SubtractGoesOn
    /\ LET sub == u64_sub(Val(block).height, N_BLOCKS)
       IN  /\ requested' = Some(sub.value)
           /\ queries' = Append(queries, sub.value)
           /\ \E body \in ReferenceBodies(sub.value) :
                 LET r   == process_block_body(body)
                     est == estimate(upgrade_time, Val(block), r.value)
                 IN  /\ r.ok
                     /\ block_minus_n' = Some(r.value)
                     /\ IF est.overflow /\ overflow_checks
                        THEN /\ pc' = "panic"
                             /\ result' = result
                             /\ wrapped' = (wrapped \/ sub.overflow)
                        ELSE /\ pc' = "done"
                             /\ result' = Some(est.value)
                             /\ wrapped' = (wrapped \/ sub.overflow \/ est.overflow)
    /\ UNCHANGED <<upgrade_time, overflow_checks, block, err>>
    /\ UNCHANGED <<planVars, checkVars, flowVars, proposalVars, keysVars, commandVars>>

NextHeight ==
    \/ GetLatestBlockHttpErr
    \/ GetLatestBlock
    \/ SubtractPanics
    \/ GetBlockMinusNHttpErr
    \/ GetBlockMinusNBadBody
    \/ GetBlockMinusNAndEstimate

SpecHeight == InitHeight /\ [][NextHeight]_vars

(***************************************************************************)
(* Inputs of the validation predicates.  A version string is put together  *)
(* from seven parts, so that what a string is made of is known without     *)
(* parsing it; the predicates see only the characters.                     *)
(***************************************************************************)
VersionPrefixes == {<<"v">>, <<>>, <<"x", "v">>}

\* "U+0661", "U+0664": ARABIC-INDIC DIGIT ONE and FOUR; "U+FF11": FULLWIDTH
\* DIGIT ONE
VersionMajors == {<<"1", "4">>, <<>>, <<"x">>, <<"U+0661", "U+0664">>, <<"U+FF11">>}

\* "U+0660": ARABIC-INDIC DIGIT ZERO
VersionMinors == {<<"0">>, <<"1", "0">>, <<>>, <<"a">>, <<"U+0660">>}

VersionPatches == {<<"0">>, <<"1", "2">>, <<>>, <<"z">>}

VersionSeparators == {<<".">>, <<",">>}

\* One "-rcN" group; "U+0663": ARABIC-INDIC DIGIT THREE
RcGroups == {<<"-", "r", "c">> \o n : n \in {<<"1">>, <<"1", "2">>, <<"U+0663">>}}

\* No group, one group, two groups
RcSuffixes(count) ==
    CASE count = 0 -> {<<>>}
      [] count = 1 -> RcGroups
      [] count = 2 -> {a \o b : a \in RcGroups, b \in {<<"-", "r", "c", "2">>}}

\* Endings that are no sequence of "-rcN" groups
BrokenSuffixes ==
    {<<"-", "r", "c">>, <<"-", "r", "c", "x">>, <<"r", "c", "1">>,
     <<"-", "r", "c", "1", "x">>, <<"\n">>}

VersionSuffixes == RcSuffixes(0) \cup RcSuffixes(1) \cup RcSuffixes(2) \cup BrokenSuffixes

EmptyVersion ==
    [prefix |-> <<>>, major |-> <<>>, sep1 |-> <<>>, minor |-> <<>>, sep2 |-> <<>>,
     patch |-> <<>>, suffix |-> <<>>]

\* "v14.0": the second separator and the patch number are missing
TwoComponentVersion ==
    [prefix |-> <<"v">>, major |-> <<"1", "4">>, sep1 |-> <<".">>, minor |-> <<"0">>,
     sep2 |-> <<>>, patch |-> <<>>, suffix |-> <<>>]

\* "v.0.1": the major number is missing
NoMajorVersion ==
    [prefix |-> <<"v">>, major |-> <<>>, sep1 |-> <<".">>, minor |-> <<"0">>,
     sep2 |-> <<".">>, patch |-> <<"1">>, suffix |-> <<>>]

VersionInputs ==
    [prefix : VersionPrefixes, major : VersionMajors, sep1 : VersionSeparators,
     minor : VersionMinors, sep2 : VersionSeparators, patch : VersionPatches,
     suffix : VersionSuffixes] \cup {EmptyVersion, TwoComponentVersion, NoMajorVersion}

\* The &str handed to the predicates
VersionString(v) ==
    v.prefix \o v.major \o v.sep1 \o v.minor \o v.sep2 \o v.patch \o v.suffix

InitVersionCheck ==
    /\ chk_pc = "start"
    /\ chk_kind = "version"
    /\ chk_network \in {Some(n) : n \in Networks}
    /\ chk_version \in {Some(v) : v \in VersionInputs}
    /\ chk_time = NoValue
    /\ valid_version = NoValue
    /\ valid_for_network = NoValue
    /\ valid_time = NoValue
    /\ PlanIdle
    /\ HeightIdle
    /\ FlowIdle
    /\ ProposalIdle
    /\ KeysIdle
    /\ CommandIdle

InitTimeCheck ==
    /\ chk_pc = "start"
    /\ chk_kind = "time"
    /\ chk_network = NoValue
    /\ chk_version = NoValue
    /\ chk_time \in {Some(t) : t \in PlanNows}
    /\ valid_version = NoValue
    /\ valid_for_network = NoValue
    /\ valid_time = NoValue
    /\ PlanIdle
    /\ HeightIdle
    /\ FlowIdle
    /\ ProposalIdle
    /\ KeysIdle
    /\ CommandIdle

InitCheck == InitVersionCheck \/ InitTimeCheck

\* is_valid_version(version), is_valid_version_for_network(network, version)
CheckVersion ==
    /\ chk_pc = "start"
    /\ chk_kind = "version"
    /\ valid_version' = Some(is_valid_version(VersionString(Val(chk_version))))
    /\ valid_for_network' =
           Some(is_valid_version_for_network(Val(chk_network),
                                             VersionString(Val(chk_version))))
    /\ chk_pc' = "done"
    /\ UNCHANGED <<chk_kind, chk_network, chk_version, chk_time, valid_time>>
    /\ UNCHANGED <<planVars, heightVars, flowVars, proposalVars, keysVars, commandVars>>

\* is_valid_upgrade_time(upgrade_time)
CheckTime ==
    /\ chk_pc = "start"
    /\ chk_kind = "time"
    /\ valid_time' = Some(is_valid_upgrade_time(Val(chk_time)))
    /\ chk_pc' = "done"
    /\ UNCHANGED <<chk_kind, chk_network, chk_version, chk_time, valid_version,
                   valid_for_network>>
    /\ UNCHANGED <<planVars, heightVars, flowVars, proposalVars, keysVars, commandVars>>

NextCheck ==
    \/ CheckVersion
    \/ CheckTime

SpecCheck == InitCheck /\ [][NextCheck]_vars

(***************************************************************************)
(* helper.rs: get_helper_from_inputs.  The function asks for the network   *)
(* and the two versions, then calls get_upgrade_time and                   *)
(* get_estimated_height (the actions above), then fetches the release and  *)
(* its summary.                                                            *)
(***************************************************************************)
\* What the user types at the two version prompts
FlowVersions ==
    {TwoComponentVersion}
        \cup {[prefix |-> <<"v">>, major |-> <<"1", "4">>, sep1 |-> <<".">>, minor |-> mi,
               sep2 |-> <<".">>, patch |-> <<"0">>, suffix |-> su] :
                  mi \in {<<"0">>, <<"1", "0">>},
                  su \in {<<>>, <<"-", "r", "c", "1">>}}

\* Utc::now() at helper.rs:155: shortly after the latest block, and some days on
FlowNows == {LatestTime + 6, LatestTime + DurationDays(3) + DurationHours(9)}

InitFlow ==
    /\ flow_pc = "start"
    /\ used_network = NoValue
    /\ previous_version = NoValue
    /\ target_version = NoValue
    /\ flow_err = NoError
    /\ PlanIdle
    /\ CheckIdle
    /\ ProposalIdle
    /\ KeysIdle
    /\ CommandIdle
    /\ pc = "idle"
    /\ upgrade_time = NoValue
    /\ overflow_checks \in BOOLEAN
    /\ block = NoValue
    /\ requested = NoValue
    /\ block_minus_n = NoValue
    /\ result = NoValue
    /\ err = NoError
    /\ wrapped = FALSE
    /\ queries = <<>>

\* helper.rs:133, the prompt failing
GetUsedNetworkErr ==
    /\ flow_pc = "start"
    /\ flow_pc' = "error"
    /\ flow_err' = "UserInput"
    /\ UNCHANGED <<used_network, previous_version, target_version>>
    /\ UNCHANGED <<planVars, heightVars, checkVars, proposalVars, keysVars, commandVars>>

\* helper.rs:133
GetUsedNetwork ==
    /\ flow_pc = "start"
    /\ \E n \in Networks : used_network' = Some(n)
    /\ flow_pc' = "previous"
    /\ UNCHANGED <<previous_version, target_version, flow_err>>
    /\ UNCHANGED <<planVars, heightVars, checkVars, proposalVars, keysVars, commandVars>>

\* helper.rs:136, the prompt failing
GetPreviousVersionErr ==
    /\ flow_pc = "previous"
    /\ flow_pc' = "error"
    /\ flow_err' = "UserInput"
    /\ UNCHANGED <<used_network, previous_version, target_version>>
    /\ UNCHANGED <<planVars, heightVars, checkVars, proposalVars, keysVars, commandVars>>

\* helper.rs:136-142
GetPreviousVersion ==
    /\ flow_pc = "previous"
    /\ \E v \in FlowVersions :
          /\ previous_version' = Some(v)
          /\ IF ~is_valid_version(VersionString(v))
                THEN /\ flow_pc' = "error"
                     /\ flow_err' = "Validate(PreviousVersion)"
                ELSE /\ flow_pc' = "target"
                     /\ UNCHANGED flow_err
    /\ UNCHANGED <<used_network, target_version>>
    /\ UNCHANGED <<planVars, heightVars, checkVars, proposalVars, keysVars, commandVars>>

\* helper.rs:145, the prompt failing
GetTargetVersionErr ==
    /\ flow_pc = "target"
    /\ flow_pc' = "error"
    /\ flow_err' = "UserInput"
    /\ UNCHANGED <<used_network, previous_version, target_version>>
    /\ UNCHANGED <<planVars, heightVars, checkVars, proposalVars, keysVars, commandVars>>

\* Mutant: the target version is taken as it is typed
GetTargetVersionUnchecked ==
    /\ flow_pc = "target"
    /\ \E v \in FlowVersions : target_version' = Some(v)
    /\ flow_pc' = "time"
    /\ plan_pc' = "start"
    /\ voting_period' = get_voting_period(Val(used_network))
    /\ \E now \in FlowNows : utc_time' = now
    /\ UNCHANGED <<default_date, plan_result, plan_err>>
    /\ UNCHANGED <<used_network, previous_version, flow_err>>
    /\ UNCHANGED <<heightVars, checkVars, proposalVars, keysVars, commandVars>>

\* helper.rs:145-155: the target version is read and checked; a version that
\* passes leads on to the call of get_upgrade_time(voting_period, Utc::now())
GetTargetVersion ==
    /\ flow_pc = "target"
    /\ \E v \in FlowVersions :
          /\ target_version' = Some(v)
          /\ IF ~is_valid_version_for_network(Val(used_network), VersionString(v))
                THEN /\ flow_pc' = "error"
                     /\ flow_err' = "Validate(TargetVersion)"
                     /\ UNCHANGED planVars
                ELSE /\ flow_pc' = "time"
                     /\ plan_pc' = "start"
                     /\ voting_period' = get_voting_period(Val(used_network))
                     /\ \E now \in FlowNows : utc_time' = now
                     /\ UNCHANGED <<default_date, plan_result, plan_err, flow_err>>
    /\ UNCHANGED <<used_network, previous_version>>
    /\ UNCHANGED <<heightVars, checkVars, proposalVars, keysVars, commandVars>>

\* helper.rs:155, the ? operator: get_upgrade_time failed
UpgradeTimeFailed ==
    /\ flow_pc = "time"
    /\ plan_pc = "error"
    /\ flow_pc' = "error"
    /\ flow_err' = plan_err
    /\ UNCHANGED <<used_network, previous_version, target_version>>
    /\ UNCHANGED <<planVars, heightVars, checkVars, proposalVars, keysVars, commandVars>>

\* helper.rs:155-156: get_upgrade_time returned, get_estimated_height is called
UpgradeTimeReturned ==
    /\ flow_pc = "time"
    /\ plan_pc = "done"
    /\ flow_pc' = "height"
    /\ pc' = "start"
    /\ upgrade_time' = Val(plan_result)
    /\ UNCHANGED <<overflow_checks, block, requested, block_minus_n, result, err,
                   wrapped, queries>>
    /\ UNCHANGED <<used_network, previous_version, target_version, flow_err>>
    /\ UNCHANGED <<planVars, checkVars, proposalVars, keysVars, commandVars>>

\* helper.rs:156, the ? operator: get_estimated_height failed
EstimatedHeightFailed ==
    /\ flow_pc = "height"
    /\ pc = "error"
    /\ flow_pc' = "error"
    /\ flow_err' = "Block"
    /\ UNCHANGED <<used_network, previous_version, target_version>>
    /\ UNCHANGED <<planVars, heightVars, checkVars, proposalVars, keysVars, commandVars>>

\* helper.rs:156: get_estimated_height panicked, and so does the caller
EstimatedHeightPanicked ==
    /\ flow_pc = "height"
    /\ pc = "panic"
    /\ flow_pc' = "panic"
    /\ UNCHANGED <<used_network, previous_version, target_version, flow_err>>
    /\ UNCHANGED <<planVars, heightVars, checkVars, proposalVars, keysVars, commandVars>>

\* helper.rs:159, the ? operator: get_release failed
GetReleaseErr ==
    /\ flow_pc = "height"
    /\ pc = "done"
    /\ flow_pc' = "error"
    /\ flow_err' = "GitHub"
    /\ UNCHANGED <<used_network, previous_version, target_version>>
    /\ UNCHANGED <<planVars, heightVars, checkVars, proposalVars, keysVars, commandVars>>

\* helper.rs:160, the ? operator: create_summary failed
CreateSummaryErr ==
    /\ flow_pc = "height"
    /\ pc = "done"
    /\ flow_pc' = "error"
    /\ flow_err' = "Summary"
    /\ UNCHANGED <<used_network, previous_version, target_version>>
    /\ UNCHANGED <<planVars, heightVars, checkVars, proposalVars, keysVars, commandVars>>

\* helper.rs:156-170: the height was estimated, the release and the summary
\* were obtained, the helper is returned
NewUpgradeHelper ==
    /\ flow_pc = "height"
    /\ pc = "done"
    /\ flow_pc' = "done"
    /\ UNCHANGED <<used_network, previous_version, target_version, flow_err>>
    /\ UNCHANGED <<planVars, heightVars, checkVars, proposalVars, keysVars, commandVars>>

\* helper.rs:163 with 51 and 280: the height was estimated, the release and the
\* summary were obtained, and get_home finds no home directory of the process,
\* expect panics
NewUpgradeHelperPanics ==
    /\ flow_pc = "height"
    /\ pc = "done"
    /\ flow_pc' = "panic"
    /\ UNCHANGED <<used_network, previous_version, target_version, flow_err>>
    /\ UNCHANGED <<planVars, heightVars, checkVars, proposalVars, keysVars, commandVars>>

NextFlow ==
    \/ GetUsedNetworkErr
    \/ GetUsedNetwork
    \/ GetPreviousVersionErr
    \/ GetPreviousVersion
    \/ GetTargetVersionErr
    \/ GetTargetVersion
    \/ NextPlan
    \/ UpgradeTimeFailed
    \/ UpgradeTimeReturned
    \/ NextHeight
    \/ EstimatedHeightFailed
    \/ EstimatedHeightPanicked
    \/ GetReleaseErr
    \/ CreateSummaryErr
    \/ NewUpgradeHelperPanics
    \/ NewUpgradeHelper

SpecFlow == InitFlow /\ [][NextFlow]_vars

(***************************************************************************)
(* helper.rs: UpgradeHelper::validate; cli.rs: generate_proposal.          *)
(***************************************************************************)
\* helper.rs:243-249; home_exists tells whether fs::metadata finds a file or a
\* directory at self.home
path_exists(h) == h.home_exists

\* Mutant: the previous version is checked before the target version
validate_previous_first(h) ==
    IF ~is_valid_version(VersionString(h.previous_version)) THEN "PreviousVersion"
    ELSE IF ~is_valid_version_for_network(h.network, VersionString(h.target_version))
    THEN "TargetVersion"
    ELSE IF ~is_valid_upgrade_time(h.upgrade_time) THEN "UpgradeTime"
    ELSE IF ~path_exists(h) THEN "HomeDir"
    ELSE "Ok"

\* UpgradeHelper::validate: "Ok", or the variant of the ValidationError
validate(h) ==
    IF ~is_valid_version_for_network(h.network, VersionString(h.target_version))
    THEN "TargetVersion"
    ELSE IF ~is_valid_version(VersionString(h.previous_version)) THEN "PreviousVersion"
    ELSE IF ~is_valid_upgrade_time(h.upgrade_time) THEN "UpgradeTime"
    ELSE IF ~path_exists(h) THEN "HomeDir"
    ELSE "Ok"

\* The seven days from Monday 2023-10-23
HelperDays == DaysFromCivil(2023, 10, 23) .. DaysFromCivil(2023, 10, 29)

\* Helpers read from a JSON file: any field may hold anything
JsonHelpers ==
    [network : Networks, previous_version : FlowVersions, target_version : FlowVersions,
     upgrade_time : {d * SECS_PER_DAY + t : d \in HelperDays, t \in {0, 16 * 3600, 86399}},
     home_exists : BOOLEAN]

\* Helpers get_helper_from_inputs returns: the versions passed their checks
\* (helper.rs:137-151), the time is 16:00:00 of the day the user picked
\* (inputs.rs:134-137)
InputHelpers ==
    {h \in [network : Networks, previous_version : FlowVersions,
            target_version : FlowVersions,
            upgrade_time : {d * SECS_PER_DAY + 16 * 3600 : d \in HelperDays},
            home_exists : BOOLEAN] :
        /\ is_valid_version(VersionString(h.previous_version))
        /\ is_valid_version_for_network(h.network, VersionString(h.target_version))}

InitProposal ==
    /\ prop_pc = "start"
    /\ \/ prop_cmd = "validate" /\ helper \in {Some(h) : h \in JsonHelpers}
       \/ prop_cmd = "generate-proposal" /\ helper \in {Some(h) : h \in InputHelpers}
    /\ validation = NoValue
    /\ prop_err = NoError
    /\ files = <<>>
    /\ PlanIdle
    /\ HeightIdle
    /\ CheckIdle
    /\ FlowIdle
    /\ KeysIdle
    /\ CommandIdle

\* helper.rs:75-103 called on the helper (cli.rs:100, helper.rs:125)
Validate ==
    /\ prop_pc = "start"
    /\ validation' = Some(validate(Val(helper)))
    /\ IF validate(Val(helper)) = "Ok"
          THEN /\ prop_pc' = IF prop_cmd = "generate-proposal" THEN "validated" ELSE "done"
               /\ UNCHANGED prop_err
          ELSE /\ prop_pc' = "error"
               /\ prop_err' = "Validate"
    /\ UNCHANGED <<prop_cmd, helper, files>>
    /\ UNCHANGED <<planVars, heightVars, checkVars, flowVars, keysVars, commandVars>>

\* cli.rs:103, the ? operator: fs::write (helper.rs:110) failed, either opening
\* the file, which leaves no file, or writing to the file it created or truncated,
\* which leaves that file behind
WriteToJsonErr ==
    /\ prop_pc = "validated"
    /\ prop_pc' = "error"
    /\ prop_err' = "Write"
    /\ files' \in {files, Append(files, "config_file_name")}
    /\ UNCHANGED <<prop_cmd, helper, validation>>
    /\ UNCHANGED <<planVars, heightVars, checkVars, flowVars, keysVars, commandVars>>

\* cli.rs:103 with helper.rs:107: the home path is no UTF-8 and cannot be
\* converted to JSON, expect panics before any file is opened
WriteToJsonPanics ==
    /\ prop_pc = "validated"
    /\ prop_pc' = "panic"
    /\ UNCHANGED <<prop_cmd, helper, validation, prop_err, files>>
    /\ UNCHANGED <<planVars, heightVars, checkVars, flowVars, keysVars, commandVars>>

\* Mutant: the configuration is exported before the helper is validated
WriteToJsonUnvalidated ==
    /\ prop_pc = "start"
    /\ prop_cmd = "generate-proposal"
    /\ files' = Append(files, "config_file_name")
    /\ prop_pc' = "exported"
    /\ UNCHANGED <<prop_cmd, helper, validation, prop_err>>
    /\ UNCHANGED <<planVars, heightVars, checkVars, flowVars, keysVars, commandVars>>

\* cli.rs:103 with helper.rs:106-111: the configuration is written
WriteToJson ==
    /\ prop_pc = "validated"
    /\ files' = Append(files, "config_file_name")
    /\ prop_pc' = "exported"
    /\ UNCHANGED <<prop_cmd, helper, validation, prop_err>>
    /\ UNCHANGED <<planVars, heightVars, checkVars, flowVars, keysVars, commandVars>>

\* cli.rs:106 with proposal.rs:14-16: the template file is not found, unwrap panics
RenderProposalPanics ==
    /\ prop_pc = "exported"
    /\ prop_pc' = "panic"
    /\ UNCHANGED <<prop_cmd, helper, validation, prop_err, files>>
    /\ UNCHANGED <<planVars, heightVars, checkVars, flowVars, keysVars, commandVars>>

\* cli.rs:106, the ? operator: handlebars.render failed
RenderProposalErr ==
    /\ prop_pc = "exported"
    /\ prop_pc' = "error"
    /\ prop_err' = "Render"
    /\ UNCHANGED <<prop_cmd, helper, validation, files>>
    /\ UNCHANGED <<planVars, heightVars, checkVars, flowVars, keysVars, commandVars>>

\* cli.rs:106
RenderProposal ==
    /\ prop_pc = "exported"
    /\ prop_pc' = "rendered"
    /\ UNCHANGED <<prop_cmd, helper, validation, prop_err, files>>
    /\ UNCHANGED <<planVars, heightVars, checkVars, flowVars, keysVars, commandVars>>

\* cli.rs:109-112, the ? operator: std::fs::write (utils.rs:6) failed, either
\* opening the file, which leaves no file, or writing to the file it created or
\* truncated, which leaves that file behind
WriteProposalFileErr ==
    /\ prop_pc = "rendered"
    /\ prop_pc' = "error"
    /\ prop_err' = "Write"
    /\ files' \in {files, Append(files, "proposal_file_name")}
    /\ UNCHANGED <<prop_cmd, helper, validation>>
    /\ UNCHANGED <<planVars, heightVars, checkVars, flowVars, keysVars, commandVars>>

\* cli.rs:109-112 with utils.rs:2-7
WriteProposalFile ==
    /\ prop_pc = "rendered"
    /\ files' = Append(files, "proposal_file_name")
    /\ prop_pc' = "done"
    /\ UNCHANGED <<prop_cmd, helper, validation, prop_err>>
    /\ UNCHANGED <<planVars, heightVars, checkVars, flowVars, keysVars, commandVars>>

NextProposal ==
    \/ Validate
    \/ WriteToJsonErr
    \/ WriteToJsonPanics
    \/ WriteToJson
    \/ RenderProposalPanics
    \/ RenderProposalErr
    \/ RenderProposal
    \/ WriteProposalFileErr
    \/ WriteProposalFile

SpecProposal == InitProposal /\ [][NextProposal]_vars

(***************************************************************************)
(* keys.rs: get_keys_with_balances; balance.rs: has_balance.               *)
(***************************************************************************)
\* The keyring holds up to this many keys
MaxKeys == 3

\* Key names; a key's address goes with its name
KeyNames == {"dev0", "dev1", "dev2", "dev3"}

\* The keyrings `evmosd keys list` may report: key names do not repeat
Keyrings ==
    {k \in UNION {[1 .. n -> KeyNames] : n \in 0 .. MaxKeys} :
        \A i, j \in 1 .. Len(k) : i # j => k[i] # k[j]}

\* balance.amount of a BalanceResponse: the decimal string of the amount
Amounts == {"0", "1", "1000000000000000000"}

\* Mutant: an amount counts unless the string is empty
has_balance_nonempty(amount) == amount # ""

\* balance.rs:36, on the amount the node answered
has_balance(amount) == amount # "0"

InitKeys ==
    /\ keys_pc = "start"
    /\ keyring = NoValue
    /\ balances = <<>>
    /\ keys_with_balance = <<>>
    /\ keys_result = NoValue
    /\ keys_err = NoError
    /\ PlanIdle
    /\ HeightIdle
    /\ CheckIdle
    /\ FlowIdle
    /\ ProposalIdle
    /\ CommandIdle

\* keys.rs:23 with 29-45, the ? operators: the command, the conversion or the
\* parsing of its output failed
GetKeysFromKeyringErr ==
    /\ keys_pc = "start"
    /\ keys_pc' = "error"
    /\ \E e \in {"CLICommand", "OutputConversion", "UnpackResponse"} : keys_err' = e
    /\ UNCHANGED <<keyring, balances, keys_with_balance, keys_result>>
    /\ UNCHANGED <<planVars, heightVars, checkVars, flowVars, proposalVars, commandVars>>

\* keys.rs:23 with 39: config.home is no UTF-8, expect panics. The home that
\* generate_command hands over was read from a JSON string and is UTF-8
GetKeysFromKeyringPanics ==
    /\ keys_pc = "start"
    /\ cmd_pc = "idle"
    /\ keys_pc' = "panic"
    /\ UNCHANGED <<keyring, balances, keys_with_balance, keys_result, keys_err>>
    /\ UNCHANGED <<planVars, heightVars, checkVars, flowVars, proposalVars, commandVars>>

\* keys.rs:23-24: the keys are read; with no key the loop of
\* filter_keys_with_balance is skipped and keys.rs:68-70 return the error
GetKeysFromKeyring ==
    /\ keys_pc = "start"
    /\ \E k \in Keyrings :
          /\ keyring' = Some(k)
          /\ IF k = <<>>
                THEN /\ keys_pc' = "error"
                     /\ keys_err' = "NoKeysWithBalance"
                ELSE /\ keys_pc' = "filter"
                     /\ UNCHANGED keys_err
    /\ UNCHANGED <<balances, keys_with_balance, keys_result>>
    /\ UNCHANGED <<planVars, heightVars, checkVars, flowVars, proposalVars, commandVars>>

\* keys.rs:63, the ? operator: the balance query for the next key failed
HasBalanceErr ==
    /\ keys_pc = "filter"
    /\ balances' = Append(balances, "failed")
    /\ keys_pc' = "error"
    /\ \E e \in {"ParseUrl", "GetBalance", "UnpackResponse"} : keys_err' = e
    /\ UNCHANGED <<keyring, keys_with_balance, keys_result>>
    /\ UNCHANGED <<planVars, heightVars, checkVars, flowVars, proposalVars, commandVars>>

\* keys.rs:62-72: one turn of the loop, the node answering `amount` for the next
\* key; after the last key the list is returned, or the error if it is empty
HasBalance ==
    /\ keys_pc = "filter"
    /\ \E amount \in Amounts :
          LET name == Val(keyring)[Len(balances) + 1]
              list == IF has_balance(amount) THEN Append(keys_with_balance, name)
                      ELSE keys_with_balance
          IN  /\ balances' = Append(balances, amount)
              /\ keys_with_balance' = list
              /\ IF Len(balances) + 1 < Len(Val(keyring))
                    THEN UNCHANGED <<keys_pc, keys_result, keys_err>>
                    ELSE IF list = <<>>
                            THEN /\ keys_pc' = "error"
                                 /\ keys_err' = "NoKeysWithBalance"
                                 /\ UNCHANGED keys_result
                            ELSE /\ keys_pc' = "done"
                                 /\ keys_result' = Some(list)
                                 /\ UNCHANGED keys_err
    /\ UNCHANGED keyring
    /\ UNCHANGED <<planVars, heightVars, checkVars, flowVars, proposalVars, commandVars>>

NextKeys ==
    \/ GetKeysFromKeyringErr
    \/ GetKeysFromKeyringPanics
    \/ GetKeysFromKeyring
    \/ HasBalanceErr
    \/ HasBalance

SpecKeys == InitKeys /\ [][NextKeys]_vars

(***************************************************************************)
(* cli.rs: generate_command, from the configuration file to the file with  *)
(* the command. get_helper_from_json runs Validate above on the helper it  *)
(* read, get_keys_with_balances runs the actions of keys.rs above.         *)
(***************************************************************************)
\* proposal_file_name of the configuration file, one character an element:
\* "a.md", "a.txt" and "a.md.md"
ProposalFileNames ==
    {<<"a", ".", "m", "d">>, <<"a", ".", "t", "x", "t">>,
     <<"a", ".", "m", "d", ".", "m", "d">>}

\* Helpers the configuration file may hold
CommandHelpers ==
    {[network |-> h.network, previous_version |-> h.previous_version,
      target_version |-> h.target_version, upgrade_time |-> h.upgrade_time,
      home_exists |-> h.home_exists, proposal_file_name |-> n] :
        h \in {j \in JsonHelpers :
                  /\ j.previous_version \in
                        {TwoComponentVersion,
                         [prefix |-> <<"v">>, major |-> <<"1", "4">>, sep1 |-> <<".">>,
                          minor |-> <<"0">>, sep2 |-> <<".">>, patch |-> <<"0">>,
                          suffix |-> <<>>]}
                  /\ j.upgrade_time \in
                        {DaysFromCivil(2023, 10, 23) * SECS_PER_DAY + 16 * 3600,
                         DaysFromCivil(2023, 10, 28) * SECS_PER_DAY + 16 * 3600}},
        n \in ProposalFileNames}

RECURSIVE replace(_, _, _)
\* str::replace: every occurrence of `from` in s, found from the left and not
\* overlapping an earlier one, becomes `to`
replace(s, from, to) ==
    IF Len(s) < Len(from) THEN s
    ELSE IF SubSeq(s, 1, Len(from)) = from
    THEN to \o replace(SubSeq(s, Len(from) + 1, Len(s)), from, to)
    ELSE <<s[1]>> \o replace(Tail(s), from, to)

RECURSIVE FileName(_)
\* The characters as one string, the way `files` names a file
FileName(s) == IF s = <<>> THEN "" ELSE s[1] \o FileName(Tail(s))

\* upgrade_helper.proposal_file_name.replace(".md", ".sh") of cli.rs:87: the
\* proposal file itself when its name holds no ".md"
command_file_name(h) ==
    FileName(replace(h.proposal_file_name, <<".", "m", "d">>, <<".", "s", "h">>))

InitCommand ==
    /\ cmd_pc = "start"
    /\ commonwealth_link = NoValue
    /\ key = NoValue
    /\ cmd_err = NoError
    /\ PlanIdle
    /\ HeightIdle
    /\ CheckIdle
    /\ FlowIdle
    /\ ProposalIdle
    /\ KeysIdle

\* cli.rs:56, the ? operator: no path was given and choose_config failed
ChooseConfigErr ==
    /\ cmd_pc = "start"
    /\ cmd_pc' = "error"
    /\ cmd_err' = "Input"
    /\ UNCHANGED <<commonwealth_link, key>>
    /\ UNCHANGED <<planVars, heightVars, checkVars, flowVars, proposalVars, keysVars>>

\* cli.rs:56 with inputs.rs:34-45: no path was given and an entry of the current
\* directory cannot be read or its name is no UTF-8, unwrap panics
ChooseConfigPanics ==
    /\ cmd_pc = "start"
    /\ cmd_pc' = "panic"
    /\ UNCHANGED <<commonwealth_link, key, cmd_err>>
    /\ UNCHANGED <<planVars, heightVars, checkVars, flowVars, proposalVars, keysVars>>

\* cli.rs:59 with helper.rs:115-119 and 124, the ? operators: the file of the path
\* given or chosen could not be read or parsed
FromJsonErr ==
    /\ cmd_pc = "start"
    /\ cmd_pc' = "error"
    /\ cmd_err' = "GetHelper"
    /\ UNCHANGED <<commonwealth_link, key>>
    /\ UNCHANGED <<planVars, heightVars, checkVars, flowVars, proposalVars, keysVars>>

\* cli.rs:54-59 with helper.rs:124: the helper is read from the file of the path
\* given or chosen; helper.rs:125 validates it next
FromJson ==
    /\ cmd_pc = "start"
    /\ cmd_pc' = "helper"
    /\ prop_pc' = "start"
    /\ prop_cmd' = "generate-command"
    /\ \E h \in CommandHelpers : helper' = Some(h)
    /\ UNCHANGED <<validation, prop_err, files>>
    /\ UNCHANGED <<commonwealth_link, key, cmd_err>>
    /\ UNCHANGED <<planVars, heightVars, checkVars, flowVars, keysVars>>

\* cli.rs:59, the ? operator: validate refused the helper (helper.rs:125)
GetHelperFromJsonErr ==
    /\ cmd_pc = "helper"
    /\ prop_pc = "error"
    /\ cmd_pc' = "error"
    /\ cmd_err' = "GetHelper"
    /\ UNCHANGED <<commonwealth_link, key>>
    /\ UNCHANGED <<planVars, heightVars, checkVars, flowVars, proposalVars, keysVars>>

\* cli.rs:60-65, the ? operator: config/client.toml could not be read or parsed
\* (evmosd.rs:19-23)
GetClientConfigErr ==
    /\ cmd_pc = "helper"
    /\ prop_pc = "done"
    /\ cmd_pc' = "error"
    /\ cmd_err' = "ClientConfig"
    /\ UNCHANGED <<commonwealth_link, key>>
    /\ UNCHANGED <<planVars, heightVars, checkVars, flowVars, proposalVars, keysVars>>

\* cli.rs:60-73: the client configuration is read; on Mainnet the link is asked
\* for next, on the other networks get_keys_with_balances is called
GetClientConfig ==
    /\ cmd_pc = "helper"
    /\ prop_pc = "done"
    /\ IF Val(helper).network = "Mainnet"
          THEN /\ cmd_pc' = "commonwealth"
               /\ UNCHANGED keys_pc
          ELSE /\ cmd_pc' = "keys"
               /\ keys_pc' = "start"
    /\ UNCHANGED <<keyring, balances, keys_with_balance, keys_result, keys_err>>
    /\ UNCHANGED <<commonwealth_link, key, cmd_err>>
    /\ UNCHANGED <<planVars, heightVars, checkVars, flowVars, proposalVars>>

\* cli.rs:68, the ? operator: the prompt of choose_commonwealth_link failed
\* (inputs.rs:63-75)
ChooseCommonwealthLinkErr ==
    /\ cmd_pc = "commonwealth"
    /\ cmd_pc' = "error"
    /\ cmd_err' = "Input"
    /\ UNCHANGED <<commonwealth_link, key>>
    /\ UNCHANGED <<planVars, heightVars, checkVars, flowVars, proposalVars, keysVars>>

\* cli.rs:69, the ? operator: the link was entered and check_commonwealth_link
\* could not parse it, could not get the page, or the page lacks the target
\* version or the network (commonwealth.rs:10-19)
CheckCommonwealthLinkErr ==
    /\ cmd_pc = "commonwealth"
    /\ cmd_pc' = "error"
    /\ cmd_err' = "Commonwealth"
    /\ UNCHANGED <<commonwealth_link, key>>
    /\ UNCHANGED <<planVars, heightVars, checkVars, flowVars, proposalVars, keysVars>>

\* cli.rs:68-73: the link is entered, checked and stored in the helper, and
\* get_keys_with_balances is called
CheckCommonwealthLink ==
    /\ cmd_pc = "commonwealth"
    /\ commonwealth_link' = Some("commonwealth_link")
    /\ cmd_pc' = "keys"
    /\ keys_pc' = "start"
    /\ UNCHANGED <<keyring, balances, keys_with_balance, keys_result, keys_err>>
    /\ UNCHANGED <<key, cmd_err>>
    /\ UNCHANGED <<planVars, heightVars, checkVars, flowVars, proposalVars>>

\* cli.rs:78, the ? operator: get_keys_with_balances returned an error
GetKeysWithBalancesErr ==
    /\ cmd_pc = "keys"
    /\ keys_pc = "error"
    /\ cmd_pc' = "error"
    /\ cmd_err' = "Key"
    /\ UNCHANGED <<commonwealth_link, key>>
    /\ UNCHANGED <<planVars, heightVars, checkVars, flowVars, proposalVars, keysVars>>

\* cli.rs:79, the ? operator: the prompt of get_key failed (inputs.rs:195-197)
GetKeyErr ==
    /\ cmd_pc = "keys"
    /\ keys_pc = "done"
    /\ cmd_pc' = "error"
    /\ cmd_err' = "Input"
    /\ UNCHANGED <<commonwealth_link, key>>
    /\ UNCHANGED <<planVars, heightVars, checkVars, flowVars, proposalVars, keysVars>>

\* cli.rs:79 with inputs.rs:195-197: the user selects one of the keys with a
\* balance
GetKey ==
    /\ cmd_pc = "keys"
    /\ keys_pc = "done"
    /\ \E i \in 1 .. Len(Val(keys_result)) : key' = Some(Val(keys_result)[i])
    /\ cmd_pc' = "prepare"
    /\ UNCHANGED <<commonwealth_link, cmd_err>>
    /\ UNCHANGED <<planVars, heightVars, checkVars, flowVars, proposalVars, keysVars>>

\* cli.rs:82, the ? operator: prepare_command could not read the proposal file,
\* get the release or its assets, or render the template (command.rs:16-18, 47)
PrepareCommandErr ==
    /\ cmd_pc = "prepare"
    /\ cmd_pc' = "error"
    /\ cmd_err' = "Prepare"
    /\ UNCHANGED <<commonwealth_link, key>>
    /\ UNCHANGED <<planVars, heightVars, checkVars, flowVars, proposalVars, keysVars>>

\* cli.rs:82 with command.rs:43-45: the template file is not found, expect panics
PrepareCommandPanics ==
    /\ cmd_pc = "prepare"
    /\ cmd_pc' = "panic"
    /\ UNCHANGED <<commonwealth_link, key, cmd_err>>
    /\ UNCHANGED <<planVars, heightVars, checkVars, flowVars, proposalVars, keysVars>>

\* cli.rs:82 with command.rs:11-49
PrepareCommand ==
    /\ cmd_pc = "prepare"
    /\ cmd_pc' = "prepared"
    /\ UNCHANGED <<commonwealth_link, key, cmd_err>>
    /\ UNCHANGED <<planVars, heightVars, checkVars, flowVars, proposalVars, keysVars>>

\* cli.rs:85-88, the ? operator: std::fs::write (utils.rs:6) failed, either
\* opening the file, which leaves no file, or writing to the file it created or
\* truncated, which leaves that file behind
WriteCommandFileErr ==
    /\ cmd_pc = "prepared"
    /\ cmd_pc' = "error"
    /\ cmd_err' = "Write"
    /\ files' \in {files, Append(files, command_file_name(Val(helper)))}
    /\ UNCHANGED <<prop_pc, prop_cmd, helper, validation, prop_err>>
    /\ UNCHANGED <<commonwealth_link, key>>
    /\ UNCHANGED <<planVars, heightVars, checkVars, flowVars, keysVars>>

\* cli.rs:85-88 with utils.rs:2-7: the command is written, over the proposal file
\* when command_file_name is its name, and Ok(()) returned
WriteCommandFile ==
    /\ cmd_pc = "prepared"
    /\ files' = Append(files, command_file_name(Val(helper)))
    /\ cmd_pc' = "done"
    /\ UNCHANGED <<prop_pc, prop_cmd, helper, validation, prop_err>>
    /\ UNCHANGED <<commonwealth_link, key, cmd_err>>
    /\ UNCHANGED <<planVars, heightVars, checkVars, flowVars, keysVars>>

NextCommand ==
    \/ ChooseConfigErr
    \/ ChooseConfigPanics
    \/ FromJsonErr
    \/ FromJson
    \/ Validate
    \/ GetHelperFromJsonErr
    \/ GetClientConfigErr
    \/ GetClientConfig
    \/ ChooseCommonwealthLinkErr
    \/ CheckCommonwealthLinkErr
    \/ CheckCommonwealthLink
    \/ NextKeys
    \/ GetKeysWithBalancesErr
    \/ GetKeyErr
    \/ GetKey
    \/ PrepareCommandErr
    \/ PrepareCommandPanics
    \/ PrepareCommand
    \/ WriteCommandFileErr
    \/ WriteCommandFile

SpecCommand == InitCommand /\ [][NextCommand]_vars

(***************************************************************************)
(* The components together: a run is a planning run, an estimation run, an *)
(* application of the predicates, a run of get_helper_from_inputs, of      *)
(* generate_proposal or validate, or of get_keys_with_balances.            *)
(***************************************************************************)
Init ==
    InitPlan \/ InitHeight \/ InitCheck \/ InitFlow \/ InitProposal \/ InitKeys
        \/ InitCommand

Next ==
    NextPlan \/ NextHeight \/ NextCheck \/ NextFlow \/ NextProposal \/ NextKeys
        \/ NextCommand

Spec == Init /\ [][Next]_vars

(***************************************************************************)
(* Claims about the planned date (checked under SpecPlan).                 *)
(***************************************************************************)
Planned == default_date # NoValue

\* C1: the date calculate_planned_date returns never falls on a Saturday or a
\* Sunday, i.e. is_valid_upgrade_time accepts it, for every (votingPeriod, now).
C1_PlannedDateNotOnWeekend ==
    Planned =>
        /\ Weekday(Val(default_date)) \notin {"Sat", "Sun"}
        /\ is_valid_upgrade_time(Val(default_date))

\* C1 witness: a date was planned for a voting period that ends on a weekend.
C1_Witness ==
    /\ Planned
    /\ Weekday(utc_time + voting_period) \in {"Sat", "Sun"}

\* The four rules of the specification, stated on day counts and seconds of the
\* day, without going through year, month and day.
C2_RulesOnce(vp, now) ==
    LET candidate == now + vp
        advance   == (now % 86400) >= 15 * 3600 \/ (candidate % 86400) >= 16 * 3600
        day1      == (candidate \div 86400) + (IF advance THEN 1 ELSE 0)
        wd        == (day1 + 3) % 7
        day2      == day1 + (IF wd = 5 THEN 2 ELSE IF wd = 6 THEN 1 ELSE 0)
    IN  day2 * 86400 + 16 * 3600

\* C2: calculate_planned_date is the four ordered rules applied once each:
\* candidate = now + votingPeriod; one day more iff hour(now) > 14 or
\* hour(candidate) >= 16; then Saturday + 2 days, Sunday + 1 day; then that
\* candidate's date at 16:00:00 UTC.
C2_FourRulesInOrder ==
    Planned => Val(default_date) = C2_RulesOnce(voting_period, utc_time)

\* C2 witness: the cutoff rule fired and moved the candidate onto a Saturday,
\* which the weekend rule then moved on (and the cutoff rule was not applied again).
C2_Witness ==
    /\ Planned
    /\ Hour(utc_time) > 14
    /\ Weekday(utc_time + voting_period) = "Fri"
    /\ Val(default_date) = (DaysOf(utc_time + voting_period) + 3) * 86400 + 16 * 3600

\* C3: the time of day of every planned upgrade date, the default and the one
\* get_upgrade_time returns, is exactly 16:00:00 UTC.
C3_AnchoredAt4pm ==
    /\ Planned => Val(default_date) % 86400 = 16 * 3600
    /\ plan_result # NoValue => Val(plan_result) % 86400 = 16 * 3600

\* C3 witness: a date was planned and returned although neither `now` nor the end
\* of voting is on a full minute.
C3_Witness ==
    /\ Planned
    /\ plan_result # NoValue
    /\ utc_time % 60 # 0
    /\ (utc_time + voting_period) % 3600 # 0

(***************************************************************************)
(* Claims about the height estimation (checked under SpecHeight).          *)
(***************************************************************************)
\* Both samples were obtained, so the rate computation was entered
Sampled == block # NoValue /\ block_minus_n # NoValue

Latest == Val(block)

Reference == Val(block_minus_n)

TimeForward == Sampled /\ Latest.time > Reference.time

ExactlyNApart == Sampled /\ Latest.height - Reference.height = N_BLOCKS

\* The heights are as the specification requires them
ValidHeights == ExactlyNApart /\ u64_lt(Reference.height, Latest.height)

\* The samples are as the specification requires them
ValidSamples == TimeForward /\ ValidHeights

\* Truncation toward zero of an f32 that keeps the sign
C4_Trunc(x) ==
    IF x.k = "num" /\ x.s = 1
    THEN 0 - f32_as_u64(F32("num", 0, x.m, x.e))
    ELSE f32_as_u64(x)

\* C4: for samples with latest.timestamp > reference.timestamp the estimated
\* height is latest.height + trunc(secondsToTarget / secondsPerBlock), the
\* quotient truncated toward zero (stated for sample pairs that are also exactly
\* N_BLOCKS apart).
C4_HeightIsTruncatedQuotient ==
    (pc = "done" /\ ValidSamples) =>
        Val(result) =
            Latest.height
              + C4_Trunc(f32_div(int_as_f32(upgrade_time - Latest.time),
                                 f32_div(int_as_f32(Latest.time - Reference.time),
                                         int_as_f32(N_BLOCKS))))

\* C5: for a sample pair exactly N_BLOCKS apart with time moving forward, the
\* estimated height is non-decreasing in the target time: no later target time
\* gives a lower height than the one returned.
C5_MonotoneInTarget ==
    (pc = "done" /\ ValidSamples) =>
        \A o \in TargetOffsets :
            LatestTime + o >= upgrade_time =>
                ~u64_lt(estimate(LatestTime + o, Latest, Reference).value, Val(result))

\* C5 witness: a height above the latest was returned for a valid sample pair,
\* and a target in the past gives a lower estimate, a later one a higher one.
C5_Witness ==
    /\ pc = "done" /\ ValidSamples
    /\ u64_lt(Latest.height, Val(result))
    /\ \E o1, o2 \in TargetOffsets :
          /\ LatestTime + o1 < upgrade_time
          /\ upgrade_time < LatestTime + o2
          /\ u64_lt(estimate(LatestTime + o1, Latest, Reference).value, Val(result))
          /\ u64_lt(Val(result), estimate(LatestTime + o2, Latest, Reference).value)

\* C6: when the latest sample is older than the reference sample, the estimation
\* fails with a MalformedSampleError and returns no height (stated for sample
\* pairs that are exactly N_BLOCKS apart).
C6_BackwardTimeRejected ==
    (ValidHeights /\ Latest.time < Reference.time) =>
        (pc = "error" /\ err = "MalformedSample" /\ result = NoValue)

\* C7: when the two samples have the same timestamp, the estimation fails with a
\* DegenerateBlockRateError for every target time (stated for sample pairs that
\* are exactly N_BLOCKS apart).
C7_ZeroRateRejected ==
    (ValidHeights /\ Latest.time = Reference.time) =>
        (pc = "error" /\ err = "DegenerateBlockRate" /\ result = NoValue)

\* C8: get_estimated_height ends with a height or a BlockError; no u64
\* subtraction or addition in it wraps around and it never panics.
C8_NoOverflowNoPanic == pc # "panic" /\ ~wrapped

\* C9: a target time at least one average block interval before the latest
\* sample yields a height strictly below latest.height (stated for valid sample
\* pairs).
C9_PastTargetBelowLatest ==
    (/\ pc = "done"
     /\ ValidSamples
     /\ Latest.time - upgrade_time
            >= (Latest.time - Reference.time + N_BLOCKS - 1) \div N_BLOCKS) =>
        u64_lt(Val(result), Latest.height)

\* C10: every sample pair that enters the rate computation has
\* latest.height > reference.height and latest.height - reference.height = N_BLOCKS
\* (stated for the runs in which the height asked for did not wrap around).
C10_SamplesExactlyNApart ==
    (Sampled /\ ~u64_sub(Latest.height, N_BLOCKS).overflow) =>
        /\ u64_lt(Reference.height, Latest.height)
        /\ Latest.height - Reference.height = N_BLOCKS

\* C11: for a valid sample pair, a target time at least one average block
\* interval after latest.timestamp yields a height strictly above latest.height.
C11_FutureTargetAboveLatest ==
    (/\ pc = "done"
     /\ ValidSamples
     /\ upgrade_time - Latest.time
            >= (Latest.time - Reference.time + N_BLOCKS - 1) \div N_BLOCKS) =>
        u64_lt(Latest.height, Val(result))

\* C11 witness: heights were returned for a target exactly one block interval
\* (2 s at 100000 s per 50000 blocks) after the latest block: one block more.
C11_Witness ==
    /\ pc = "done"
    /\ ValidSamples
    /\ Latest.time - Reference.time = 100000
    /\ upgrade_time - Latest.time = 2
    /\ Val(result) = Latest.height + 1

\* C13: the latest-block query is issued first, the reference-block query (for
\* the u64 difference block.height - N_BLOCKS) only after the latest block was
\* obtained, each at most once; a height is computed only after both samples
\* were obtained; a failed query ends the run with its error and no further query.
C13_QueryOrder ==
    /\ Len(queries) <= 2
    /\ Len(queries) >= 1 <=> pc \notin {"idle", "start"}
    /\ Len(queries) >= 1 => queries[1] = "latest"
    /\ Len(queries) = 2 =>
          /\ block # NoValue
          /\ queries[2] = u64_sub(Latest.height, N_BLOCKS).value
    /\ block_minus_n # NoValue => Len(queries) = 2
    /\ result # NoValue => (Sampled /\ pc = "done")
    /\ pc = "error" => (err # NoError /\ result = NoValue /\ block_minus_n = NoValue)
    /\ (pc = "error" /\ block = NoValue) => Len(queries) = 1

\* C13 witness: a height was returned after exactly the two queries, in order.
C13_Witness ==
    /\ pc = "done"
    /\ result # NoValue
    /\ queries = <<"latest", 18748834>>

(***************************************************************************)
(* version.rs, inputs.rs: the validation predicates.                       *)
(***************************************************************************)
VersionChecked == chk_pc = "done" /\ chk_kind = "version"

TimeChecked == chk_pc = "done" /\ chk_kind = "time"

CheckedVersion == Val(chk_version)

CheckedString == VersionString(CheckedVersion)

\* The digits an unsigned integer is written with
Digits == {"0", "1", "2", "3", "4", "5", "6", "7", "8", "9"}

\* The digits and the decimal digits of other scripts that occur in the inputs
DecimalDigits == Digits \cup {"U+0660", "U+0661", "U+0663", "U+0664", "U+FF11"}

\* A non-empty run of digits
DigitRun(p) == Len(p) >= 1 /\ \A i \in 1 .. Len(p) : p[i] \in Digits

\* The string is 'v', number, '.', number, '.', number, and then no, one or two
\* "-rcN" groups, every number an unsigned integer
WellFormedVersion(v) ==
    /\ v.prefix = <<"v">>
    /\ DigitRun(v.major)
    /\ v.sep1 = <<".">>
    /\ DigitRun(v.minor)
    /\ v.sep2 = <<".">>
    /\ DigitRun(v.patch)
    /\ v.suffix \in RcSuffixes(0) \cup RcSuffixes(1) \cup RcSuffixes(2)
    /\ \A i \in 1 .. Len(v.suffix) : v.suffix[i] \in Digits \cup {"-", "r", "c"}

CarriesRcSuffix(v) == v.suffix \in RcSuffixes(1) \cup RcSuffixes(2)

\* The networks' release-candidate rules
RcRule(network, v) ==
    CASE network = "LocalNode" -> TRUE
      [] network = "Testnet"   -> CarriesRcSuffix(v)
      [] network = "Mainnet"   -> ~CarriesRcSuffix(v)

\* C14: is_valid_version_for_network(network, s) is true exactly when
\* is_valid_version(s) is true and the network's release-candidate rule holds
\* (LocalNode: any valid version; Testnet: with an RC suffix; Mainnet: without);
\* the network check adds no restriction on the numbers.
C14_NetworkCheckIsValidPlusRcRule ==
    VersionChecked =>
        Val(valid_for_network) =
            (Val(valid_version) /\ RcRule(Val(chk_network), CheckedVersion))

\* The string ends in "-rc" and a non-empty run of decimal digits, of any script
HasRcTail(s) ==
    \E i \in 1 .. Len(s) :
        /\ i + 3 <= Len(s)
        /\ s[i] = "-" /\ s[i + 1] = "r" /\ s[i + 2] = "c"
        /\ \A j \in i + 3 .. Len(s) : s[j] \in DecimalDigits

\* C15: Testnet accepts no string without a trailing -rcN suffix, and Mainnet
\* accepts no string with an -rcN suffix (N a run of decimal digits).
C15_RcRequiredOrForbidden ==
    VersionChecked =>
        /\ (chk_network = Some("Testnet") /\ ~HasRcTail(CheckedString)) =>
               valid_for_network = Some(FALSE)
        /\ (chk_network = Some("Mainnet") /\ HasRcTail(CheckedString)) =>
               valid_for_network = Some(FALSE)

\* C15 witness: Testnet refused "v14.0.0".
C15_Witness ==
    /\ VersionChecked
    /\ chk_network = Some("Testnet")
    /\ CheckedString = <<"v", "1", "4", ".", "0", ".", "0">>
    /\ valid_for_network = Some(FALSE)

\* C16: is_valid_version(s) is true exactly for 'v', a digit run, '.', a digit
\* run, '.', a digit run, then zero or more "-rc" + digit run groups, with nothing
\* before or after; "v14.0", "v14.0." and "v.0.1" are refused.
C16_ValidVersionShape ==
    VersionChecked =>
        /\ Val(valid_version) = WellFormedVersion(CheckedVersion)
        /\ CheckedString \in {<<"v", "1", "4", ".", "0">>,
                              <<"v", "1", "4", ".", "0", ".">>,
                              <<"v", ".", "0", ".", "1">>} =>
               valid_version = Some(FALSE)

\* Empty, a wrong separator, or a component with a character that is no decimal
\* digit of any script
MalformedVersion(v) ==
    \/ VersionString(v) = <<>>
    \/ v.sep1 = <<",">>
    \/ v.sep2 = <<",">>
    \/ \E p \in {v.major, v.minor, v.patch} :
          \E i \in 1 .. Len(p) : p[i] \notin DecimalDigits

\* C17: each of the three predicates returns a boolean for every input (an
\* application always completes, with TRUE or FALSE); a malformed version string
\* (empty, wrong separator, non-numeric component) yields FALSE; the arguments
\* are left as they were.
C17_PredicatesTotal ==
    /\ [](chk_pc = "done" =>
            /\ chk_kind = "version" =>
                  /\ valid_version \in {Some(TRUE), Some(FALSE)}
                  /\ valid_for_network \in {Some(TRUE), Some(FALSE)}
                  /\ MalformedVersion(CheckedVersion) =>
                        (valid_version = Some(FALSE) /\ valid_for_network = Some(FALSE))
            /\ chk_kind = "time" => valid_time \in {Some(TRUE), Some(FALSE)})
    /\ [](chk_pc \in {"idle", "start", "done"})
    /\ [][UNCHANGED <<chk_network, chk_version, chk_time>>]_vars

\* C17 witness: "v14,0,0" (wrong separators) was refused by both predicates.
C17_Witness ==
    /\ VersionChecked
    /\ CheckedString = <<"v", "1", "4", ",", "0", ",", "0">>
    /\ valid_version = Some(FALSE)
    /\ valid_for_network = Some(FALSE)

\* 2023-10-23, a Monday (inputs.rs tests), as a day number
KnownMonday == DaysFromCivil(2023, 10, 23)

\* Days since the last Monday, 0 .. 6
DaysSinceMonday(t) == ((t \div SECS_PER_DAY) - KnownMonday) % 7

\* C19: is_valid_upgrade_time(t) is FALSE exactly when t falls on a Saturday or
\* a Sunday (UTC) and TRUE on Monday to Friday, whatever the time of day.
C19_WeekdaysOnly ==
    TimeChecked => Val(valid_time) = (DaysSinceMonday(Val(chk_time)) \notin {5, 6})

\* C19 witness: Saturday 2023-10-28 23:59:59 was refused.
C19_Witness ==
    /\ TimeChecked
    /\ Val(chk_time) = (KnownMonday + 5) * SECS_PER_DAY + 23 * 3600 + 59 * 60 + 59
    /\ valid_time = Some(FALSE)

(***************************************************************************)
(* helper.rs: the version checks come before scheduling and estimation.    *)
(***************************************************************************)
\* get_upgrade_time was called
SchedulingStarted == plan_pc # "idle"

\* get_estimated_height was called
EstimationStarted == pc # "idle" \/ queries # <<>>

PreviousVersionPassed ==
    /\ previous_version # NoValue
    /\ is_valid_version(VersionString(Val(previous_version)))

TargetVersionPassed ==
    /\ used_network # NoValue
    /\ target_version # NoValue
    /\ is_valid_version_for_network(Val(used_network), VersionString(Val(target_version)))

\* C18: in get_helper_from_inputs, get_upgrade_time and get_estimated_height are
\* called only after the previous version passed is_valid_version and the target
\* version passed is_valid_version_for_network for the chosen network; a version
\* that fails its check ends the function with a ValidationError, and neither
\* scheduling nor estimation has been started.
C18_VersionsGateScheduling ==
    /\ (SchedulingStarted \/ EstimationStarted) =>
           (PreviousVersionPassed /\ TargetVersionPassed)
    /\ EstimationStarted => plan_pc = "done"
    /\ (previous_version # NoValue /\ ~PreviousVersionPassed) =>
           /\ flow_pc = "error"
           /\ flow_err = "Validate(PreviousVersion)"
           /\ target_version = NoValue
    /\ (target_version # NoValue /\ ~TargetVersionPassed) =>
           /\ flow_pc = "error"
           /\ flow_err = "Validate(TargetVersion)"
    /\ flow_err \in {"Validate(PreviousVersion)", "Validate(TargetVersion)"} =>
           /\ flow_pc = "error"
           /\ ~SchedulingStarted
           /\ ~EstimationStarted

\* C18 witness: on Testnet, "v14.0.0" passed as the previous version and
\* "v14.0.0-rc1" as the target version, and a height was estimated.
C18_Witness ==
    /\ flow_pc = "done"
    /\ used_network = Some("Testnet")
    /\ VersionString(Val(previous_version)) = <<"v", "1", "4", ".", "0", ".", "0">>
    /\ VersionString(Val(target_version)) =
           <<"v", "1", "4", ".", "0", ".", "0", "-", "r", "c", "1">>
    /\ plan_pc = "done"
    /\ pc = "done"
    /\ result # NoValue

(***************************************************************************)
(* inputs.rs: the weekend rule of calculate_planned_date.                  *)
(***************************************************************************)
\* Whether the cutoff rule fires for (vp, now)
CutoffFired(vp, now) ==
    (now % SECS_PER_DAY) \div 3600 > 14 \/ ((now + vp) % SECS_PER_DAY) \div 3600 >= 16

\* The candidate after the cutoff step
CandidateAfterCutoff(vp, now) ==
    IF CutoffFired(vp, now) THEN now + vp + SECS_PER_DAY ELSE now + vp

\* 16:00:00 on the first Monday after t
MondayAfterAt4pm(t) ==
    ((t \div SECS_PER_DAY) + 7 - DaysSinceMonday(t)) * SECS_PER_DAY + 16 * 3600

MondayMorning == with_ymd_and_hms(2023, 10, 23, 11, 0, 0)

MondayEvening == with_ymd_and_hms(2023, 10, 23, 20, 0, 0)

FridayMorning == with_ymd_and_hms(2023, 10, 27, 11, 0, 0)

\* C20: whenever the candidate after the cutoff step falls on a Saturday or a
\* Sunday, the planned date is the first Monday after that candidate at 16:00 UTC,
\* whether the cutoff rule fired (Monday 20:00 + 120h, Friday 11:00 + 12h) or
\* not (Monday 11:00 + 120h).
C20_WeekendCandidateGoesToMonday ==
    Planned =>
        /\ DaysSinceMonday(CandidateAfterCutoff(voting_period, utc_time)) \in {5, 6} =>
               Val(default_date) =
                   MondayAfterAt4pm(CandidateAfterCutoff(voting_period, utc_time))
        /\ (utc_time = MondayMorning /\ voting_period = DurationHours(120)) =>
               /\ ~CutoffFired(voting_period, utc_time)
               /\ Val(default_date) = with_ymd_and_hms(2023, 10, 30, 16, 0, 0)
        /\ (utc_time = MondayEvening /\ voting_period = DurationHours(120)) =>
               /\ CutoffFired(voting_period, utc_time)
               /\ Val(default_date) = with_ymd_and_hms(2023, 10, 30, 16, 0, 0)
        /\ (utc_time = FridayMorning /\ voting_period = DurationHours(12)) =>
               /\ CutoffFired(voting_period, utc_time)
               /\ Val(default_date) = with_ymd_and_hms(2023, 10, 30, 16, 0, 0)

\* C20 witness: Monday 11:00 + 120h, a Saturday the cutoff rule left alone, was
\* planned for Monday 2023-10-30 16:00.
C20_Witness ==
    /\ Planned
    /\ utc_time = MondayMorning
    /\ voting_period = DurationHours(120)
    /\ DaysSinceMonday(CandidateAfterCutoff(voting_period, utc_time)) = 5
    /\ Val(default_date) = with_ymd_and_hms(2023, 10, 30, 16, 0, 0)

(***************************************************************************)
(* inputs.rs: calculate_planned_date on the scenarios of the tests.        *)
(***************************************************************************)
\* The cutoff rule fires in calculate_planned_date(vp, now) (inputs.rs:147)
CutoffTriggered(vp, now) == cutoff_applies(now, now + vp)

\* The weekend rule moves the candidate in calculate_planned_date(vp, now)
\* (inputs.rs:152-156)
WeekendTriggered(vp, now) ==
    LET end1 == IF cutoff_applies(now, now + vp) THEN now + vp + DurationDays(1)
                ELSE now + vp
    IN  weekend_shift(end1) # end1

MondayMorningTestnet == utc_time = MondayMorning /\ voting_period = DurationHours(12)

\* C21 as stated: for now = Monday 11:00 UTC and votingPeriod = 12h the planned
\* date is Tuesday 16:00 UTC of the same week, and neither the cutoff rule nor the
\* weekend rule is triggered.
C21_NoRuleTriggered ==
    (Planned /\ MondayMorningTestnet) =>
        /\ Val(default_date) = with_ymd_and_hms(2023, 10, 24, 16, 0, 0)
        /\ ~CutoffTriggered(voting_period, utc_time)
        /\ ~WeekendTriggered(voting_period, utc_time)

\* C21 amended: for now = Monday 11:00 UTC and votingPeriod = 12h the planned
\* date is Tuesday 16:00 UTC of the same week; the cutoff rule is triggered (the
\* voting ends at 23:00, hour >= 16) and the weekend rule is not.
C21_TuesdayByCutoff ==
    (Planned /\ MondayMorningTestnet) =>
        /\ Val(default_date) = with_ymd_and_hms(2023, 10, 24, 16, 0, 0)
        /\ Val(default_date) = (KnownMonday + 1) * SECS_PER_DAY + 16 * 3600
        /\ CutoffTriggered(voting_period, utc_time)
        /\ ~WeekendTriggered(voting_period, utc_time)

\* C21 witness: the date was planned for Monday 11:00 and 12h.
C21_Witness ==
    /\ Planned
    /\ MondayMorningTestnet
    /\ Val(default_date) = with_ymd_and_hms(2023, 10, 24, 16, 0, 0)

\* C22: when hour(now) <= 14, hour(now + votingPeriod) < 16 and now +
\* votingPeriod falls on Monday to Friday, the planned date is the calendar date
\* of now + votingPeriod at 16:00 UTC; Friday 11:00 + 120h gives Wednesday
\* 16:00 UTC of the following week.
C22_SameDayWhenNoRuleApplies ==
    Planned =>
        /\ (/\ (utc_time % SECS_PER_DAY) \div 3600 <= 14
            /\ ((utc_time + voting_period) % SECS_PER_DAY) \div 3600 < 16
            /\ DaysSinceMonday(utc_time + voting_period) \in 0 .. 4) =>
               Val(default_date) =
                   ((utc_time + voting_period) \div SECS_PER_DAY) * SECS_PER_DAY + 16 * 3600
        /\ (utc_time = FridayMorning /\ voting_period = DurationHours(120)) =>
               Val(default_date) = with_ymd_and_hms(2023, 11, 1, 16, 0, 0)

\* C22 witness: Friday 11:00 + 120h was planned for Wednesday 2023-11-01 16:00.
C22_Witness ==
    /\ Planned
    /\ utc_time = FridayMorning
    /\ voting_period = DurationHours(120)
    /\ DaysSinceMonday(Val(default_date)) = 2
    /\ Val(default_date) = with_ymd_and_hms(2023, 11, 1, 16, 0, 0)

\* C23: the planned date is shifted to the next day whenever `now` is later than
\* 14:00:00 UTC or the end of voting (now + votingPeriod) is at or after 14:00:00
\* UTC: the planned date lies on a later calendar day than the end of voting.
C23_ShiftedAfter2pm ==
    (/\ Planned
     /\ \/ utc_time % SECS_PER_DAY > 14 * 3600
        \/ (utc_time + voting_period) % SECS_PER_DAY >= 14 * 3600) =>
        Val(default_date) \div SECS_PER_DAY > (utc_time + voting_period) \div SECS_PER_DAY

\* C24: for every now and every non-negative votingPeriod, the date
\* calculate_planned_date returns is strictly later than now + votingPeriod.
C24_PlannedAfterEndOfVoting ==
    (Planned /\ voting_period >= 0) => Val(default_date) > utc_time + voting_period

\* C24 witness: the voting ends at 16:00:00 sharp on a day the tool was used
\* before 3 pm, and the date was planned a day later.
C24_Witness ==
    /\ Planned
    /\ voting_period > 0
    /\ (utc_time % SECS_PER_DAY) \div 3600 <= 14
    /\ (utc_time + voting_period) % SECS_PER_DAY = 16 * 3600
    /\ Val(default_date) = utc_time + voting_period + SECS_PER_DAY

\* The tool run again up to a day later, on a full hour's distance
LaterNows(now) == {now + DurationHours(h) : h \in 0 .. 24}

\* C25: for a fixed votingPeriod, calculate_planned_date is monotone in now: the
\* date planned at `now` is not later than the date planned at any later time.
C25_MonotoneInNow ==
    Planned =>
        \A later \in LaterNows(utc_time) :
            Val(default_date) <= calculate_planned_date(voting_period, later)

\* C26: the date calculate_planned_date returns lies at most 3 days and 16 hours
\* (88 hours) after the end of voting now + votingPeriod.
C26_DelayAtMost88Hours ==
    Planned => Val(default_date) - (utc_time + voting_period) <= 88 * 3600

\* C26 witness: the voting ends at midnight between Thursday and Friday, the
\* cutoff rule moves it to Saturday, the weekend rule to Monday: 88 hours.
C26_Witness ==
    /\ Planned
    /\ DaysSinceMonday(utc_time) = 3
    /\ (utc_time + voting_period) % SECS_PER_DAY = 0
    /\ DaysSinceMonday(utc_time + voting_period) = 4
    /\ Val(default_date) - (utc_time + voting_period) = 88 * 3600

(***************************************************************************)
(* version.rs: the network check against the generic check.                *)
(***************************************************************************)
\* C30: for every network and every string s, is_valid_version_for_network(
\* network, s) implies is_valid_version(s).
C30_NetworkCheckImpliesValid ==
    VersionChecked => (valid_for_network = Some(TRUE) => valid_version = Some(TRUE))

\* C30 witness: Mainnet accepted "v14.0.0", which the generic check accepts too.
C30_Witness ==
    /\ VersionChecked
    /\ chk_network = Some("Mainnet")
    /\ CheckedString = <<"v", "1", "4", ".", "0", ".", "0">>
    /\ valid_for_network = Some(TRUE)
    /\ valid_version = Some(TRUE)

(***************************************************************************)
(* helper.rs: UpgradeHelper::validate; cli.rs: generate_proposal.          *)
(***************************************************************************)
TargetVersionOk(h) ==
    is_valid_version_for_network(h.network, VersionString(h.target_version))

PreviousVersionOk(h) == is_valid_version(VersionString(h.previous_version))

UpgradeTimeOk(h) == DaysSinceMonday(h.upgrade_time) \notin {5, 6}

HomeDirOk(h) == h.home_exists

\* C27: UpgradeHelper::validate returns Ok exactly when all four checks hold
\* (target version valid for the network, previous version valid, upgrade time
\* not on a weekend, home path exists); otherwise the error of the first failing
\* check in the order TargetVersion, PreviousVersion, UpgradeTime, HomeDir; the
\* helper stays as it was.
C27_ValidateFirstFailingCheck ==
    /\ [](validation # NoValue =>
            LET h == Val(helper)
                r == Val(validation)
            IN  /\ r \in {"Ok", "TargetVersion", "PreviousVersion", "UpgradeTime", "HomeDir"}
                /\ r = "Ok" <=> /\ TargetVersionOk(h) /\ PreviousVersionOk(h)
                                /\ UpgradeTimeOk(h) /\ HomeDirOk(h)
                /\ r = "TargetVersion" <=> ~TargetVersionOk(h)
                /\ r = "PreviousVersion" <=> (TargetVersionOk(h) /\ ~PreviousVersionOk(h))
                /\ r = "UpgradeTime" <=>
                       (TargetVersionOk(h) /\ PreviousVersionOk(h) /\ ~UpgradeTimeOk(h))
                /\ r = "HomeDir" <=>
                       /\ TargetVersionOk(h) /\ PreviousVersionOk(h)
                       /\ UpgradeTimeOk(h) /\ ~HomeDirOk(h))
    /\ [][helper' = helper]_vars

\* C27 witness: all four checks fail and the TargetVersion error was returned.
C27_Witness ==
    /\ validation = Some("TargetVersion")
    /\ ~TargetVersionOk(Val(helper))
    /\ ~PreviousVersionOk(Val(helper))
    /\ ~UpgradeTimeOk(Val(helper))
    /\ ~HomeDirOk(Val(helper))

\* C28: in generate_proposal no file is written unless validate has succeeded;
\* the steps run in the order validate, write JSON config, render proposal, write
\* proposal file, each only if all earlier steps succeeded; a helper whose
\* upgrade time is on a weekend never produces a config or proposal file.
C28_ValidateBeforeFiles ==
    prop_cmd = "generate-proposal" =>
        /\ files # <<>> => validation = Some("Ok")
        /\ files \in {<<>>, <<"config_file_name">>,
                      <<"config_file_name", "proposal_file_name">>}
        /\ prop_pc = "start" => (validation = NoValue /\ files = <<>>)
        /\ prop_pc = "validated" => (validation = Some("Ok") /\ files = <<>>)
        /\ prop_pc \in {"exported", "rendered"} => files = <<"config_file_name">>
        /\ prop_pc = "done" => files = <<"config_file_name", "proposal_file_name">>
        /\ prop_pc = "error" => prop_err \in {"Validate", "Write", "Render"}
        /\ prop_err = "Validate" => (validation \notin {NoValue, Some("Ok")} /\ files = <<>>)
        /\ prop_err = "Render" => files = <<"config_file_name">>
        /\ ~UpgradeTimeOk(Val(helper)) =>
               (files = <<>> /\ prop_pc \in {"start", "error"})

\* C28 witness: the helper was validated, then the config and then the proposal
\* file were written.
C28_Witness ==
    /\ prop_cmd = "generate-proposal"
    /\ prop_pc = "done"
    /\ validation = Some("Ok")
    /\ UpgradeTimeOk(Val(helper))
    /\ files = <<"config_file_name", "proposal_file_name">>

(***************************************************************************)
(* keys.rs: get_keys_with_balances.                                        *)
(***************************************************************************)
\* The amount is not zero
NonZeroAmount(a) == a \in {"1", "1000000000000000000"}

\* Every key of the keyring was asked for and every query was answered
AllBalancesQueried ==
    /\ keyring # NoValue
    /\ Len(balances) = Len(Val(keyring))
    /\ \A i \in 1 .. Len(balances) : balances[i] # "failed"

\* The positions of the keys answered with a non-zero amount
FundedPositions == {i \in 1 .. Len(balances) : NonZeroAmount(balances[i])}

\* C29: get_keys_with_balances returns Ok(list) only if every balance query
\* succeeded; the list is then non-empty and holds exactly the names of the keys
\* with a non-zero balance, in keyring order; with no such key the error is
\* NoKeysWithBalance; the first failing query ends the run with its error, with
\* no further query and no list.
C29_KeysWithBalance ==
    /\ keys_pc = "done" <=> keys_result # NoValue
    /\ keys_result # NoValue =>
          /\ AllBalancesQueried
          /\ Val(keys_result) # <<>>
          /\ Len(Val(keys_result)) = Cardinality(FundedPositions)
          /\ \A k \in 1 .. Len(Val(keys_result)) :
                \E i \in FundedPositions :
                    /\ Cardinality({j \in FundedPositions : j <= i}) = k
                    /\ Val(keys_result)[k] = Val(keyring)[i]
    /\ (AllBalancesQueried /\ FundedPositions = {}) =>
          (keys_pc = "error" /\ keys_err = "NoKeysWithBalance" /\ keys_result = NoValue)
    /\ keys_err = "NoKeysWithBalance" => (AllBalancesQueried /\ FundedPositions = {})
    /\ \A i \in 1 .. Len(balances) :
          balances[i] = "failed" =>
              /\ i = Len(balances)
              /\ keys_pc = "error"
              /\ keys_err \in {"ParseUrl", "GetBalance", "UnpackResponse"}
              /\ keys_result = NoValue

\* C29 witness: of three keys the first and the third have a balance, and their
\* names were returned in that order.
C29_Witness ==
    /\ keyring = Some(<<"dev0", "dev1", "dev2">>)
    /\ balances = <<"1", "0", "1000000000000000000">>
    /\ keys_result = Some(<<"dev0", "dev2">>)

====
